---------------------------- MODULE Spec2Model ----------------------------
(***************************************************************************)
(* Authentication and registration of the SEMI portal (server/auth.ts).   *)
(* The credential store (server/storage.ts), the mailer and the TOTP      *)
(* primitive are collaborators of auth.ts; they are modelled by the       *)
(* operators of the "store" and "collaborators" sections.                 *)
(*                                                                         *)
(* Time is counted in units of ten minutes.  Strings that the code cuts,  *)
(* upper-cases or tests character by character (passwords, company names, *)
(* short names) are tuples of one-character strings; all other strings    *)
(* are TLA+ strings, "" standing for an absent (undefined/null) value.    *)
(***************************************************************************)
EXTENDS Integers, Sequences, FiniteSets, TLC

VARIABLES
    users,         \* credential store: user id -> user record
    companies,     \* credential store: company id -> company record
    joinRequests,  \* credential store: set of ContractorJoinRequest records
    sessions,      \* session store: session id -> session payload
    now,           \* the clock, in units of ten minutes
    last,          \* the request handled last and the response it was given
    regBranch,     \* history: user id -> registration branch that handled it
    inflight,      \* register requests that are between two awaits
    boot,          \* setupAuth: its environment, its position and what it built
    call           \* a permission predicate's arguments and, once called, its result

vars == <<users, companies, joinRequests, sessions, now, last, regBranch, inflight,
          boot, call>>

-----------------------------------------------------------------------------
(* Bounds *)

MaxUsers == 2
MaxTime == 2
MaxInflight == 2

-----------------------------------------------------------------------------
(* Characters and strings-as-tuples *)

LowerChars == <<"a","b","c","d","e","f","g","h","i","j","k","l","m",
                "n","o","p","q","r","s","t","u","v","w","x","y","z">>
UpperChars == <<"A","B","C","D","E","F","G","H","I","J","K","L","M",
                "N","O","P","Q","R","S","T","U","V","W","X","Y","Z">>
DigitChars == <<"0","1","2","3","4","5","6","7","8","9">>

Range(s) == {s[i] : i \in DOMAIN s}

IsLower(c) == c \in Range(LowerChars)
IsUpper(c) == c \in Range(UpperChars)
IsDigit(c) == c \in Range(DigitChars)

\* The character class [!@#$%^&*(),.?":{}|<>] of the password pattern.
RegexSymbols == {"!","@","#","$","%","^","&","*","(",")",",",".","?","\"",":","{","}","|","<",">"}

\* JavaScript's "." matches every character but a line terminator.
LineTerminators == {"\n", "\r"}

\* String.prototype.toUpperCase, one character.
UpperOf(c) ==
    IF IsLower(c) THEN UpperChars[CHOOSE i \in DOMAIN LowerChars : LowerChars[i] = c]
    ELSE c

ToUpperCase(s) == [i \in DOMAIN s |-> UpperOf(s[i])]

\* String.prototype.substring(0, n).
Substring0(s, n) == IF Len(s) <= n THEN s ELSE SubSeq(s, 1, n)

\* s.replace(/[^A-Z0-9]/g, '').
StripNonAlnumUpper(s) == SelectSeq(s, LAMBDA c : IsUpper(c) \/ IsDigit(c))

\* The decimal rendering of a counter, as a template literal produces it.
RECURSIVE NumStr(_)
NumStr(n) ==
    IF n < 10 THEN <<DigitChars[n + 1]>>
    ELSE NumStr(n \div 10) \o <<DigitChars[(n % 10) + 1]>>

\* n copies of c.
RECURSIVE Rep(_, _)
Rep(c, n) == IF n = 0 THEN <<>> ELSE <<c>> \o Rep(c, n - 1)

\* JavaScript truthiness of a string-as-tuple and of a string.
TruthyT(s) == s # <<>>
Truthy(s) == s # ""


-----------------------------------------------------------------------------
(* Passwords *)

PwMinLen == 8
PwMaxLen == 64

\* The part of s that ".*" can run over from the start of the string.
FirstLine(s) ==
    LET ends == {i \in DOMAIN s : s[i] \in LineTerminators} IN
    IF ends = {} THEN s
    ELSE SubSeq(s, 1, (CHOOSE i \in ends : \A j \in ends : i <= j) - 1)

\* The pattern as it would be without its digit lookahead.
PasswordRegexTestNoDigit(p) ==
    LET line == FirstLine(p) IN
    /\ \E i \in DOMAIN line : IsLower(line[i])
    /\ \E i \in DOMAIN line : IsUpper(line[i])
    /\ \E i \in DOMAIN line : line[i] \in RegexSymbols
    /\ \A i \in DOMAIN p : p[i] \notin LineTerminators
    /\ Len(p) >= PwMinLen
    /\ Len(p) <= PwMaxLen

\* /^(?=.*[a-z])(?=.*[A-Z])(?=.*\d)(?=.*[!@#$%^&*(),.?":{}|<>]).{8,64}$/.test(p)
PasswordRegexTest(p) ==
    LET line == FirstLine(p) IN
    /\ \E i \in DOMAIN line : IsLower(line[i])
    /\ \E i \in DOMAIN line : IsUpper(line[i])
    /\ \E i \in DOMAIN line : IsDigit(line[i])
    /\ \E i \in DOMAIN line : line[i] \in RegexSymbols
    /\ \A i \in DOMAIN p : p[i] \notin LineTerminators
    /\ Len(p) >= PwMinLen
    /\ Len(p) <= PwMaxLen

\* The bytes of a character in UTF-8, the encoding bcrypt is handed; the
\* euro sign stands for the characters outside ASCII.
Utf8Len(c) == IF c = "€" THEN 3 ELSE 1

Utf8MaxLen == 3

\* bcrypt reads the first 72 bytes of a password and ignores the rest.
BcryptKeyBytes == 72

\* The bytes of s that precede its i-th character.
BytesBefore(s, i) ==
    Cardinality({j \in 1..(i - 1) : Utf8Len(s[j]) = 1})
      + Utf8MaxLen * Cardinality({j \in 1..(i - 1) : Utf8Len(s[j]) = Utf8MaxLen})

\* The characters of a password that bcrypt reads: those that begin within
\* the first 72 bytes.
BcryptKey(password) ==
    IF Utf8MaxLen * Len(password) <= BcryptKeyBytes THEN password
    ELSE SubSeq(password, 1,
                Cardinality({i \in DOMAIN password :
                               BytesBefore(password, i) < BcryptKeyBytes}))

\* The length of a bcrypt digest, and of the legacy scrypt digest (line 57).
BcryptDigestBytes == 23
ScryptKeyLen == 64

\* bcrypt.hash(password, 10): the current format, tagged "$2b$"; the digest
\* is a function of the bytes bcrypt reads of the password and of the salt
\* drawn for this hash.
HashPassword(password, salt) ==
    [prefix |-> "$2b$", salt |-> salt, digestOf |-> BcryptKey(password),
     digestBytes |-> BcryptDigestBytes]

\* A stored value of the legacy format "digest.salt": the hex digest of
\* scrypt(password, salt, 64) when digestBytes is 64, a digest of another
\* length otherwise; salt is "" when nothing follows a delimiter.
LegacyStored(password, salt, digestBytes) ==
    [prefix |-> "", salt |-> salt, digestOf |-> password, digestBytes |-> digestBytes]

\* A stored value that is no string (a row without a password).
NoStored == [prefix |-> "<null>", salt |-> "", digestOf |-> <<>>, digestBytes |-> 0]

\* Line 44: bcrypt.compare(supplied, stored); a value that is tagged but is
\* no bcrypt hash matches nothing.
BcryptCompare(supplied, stored) ==
    /\ stored.digestBytes = BcryptDigestBytes
    /\ BcryptKey(supplied) = stored.digestOf

\* Lines 39-59, the body of the try: "true", "false", or "throws" where
\* stored.substring (line 39) or timingSafeEqual (line 58) throws.
ComparePasswordsTry(supplied, stored) ==
    IF stored = NoStored THEN "throws"
    ELSE IF stored.prefix = "$2b$"
    THEN IF BcryptCompare(supplied, stored) THEN "true" ELSE "false"
    ELSE IF ~Truthy(stored.salt) THEN "false"
    ELSE IF stored.digestBytes # ScryptKeyLen THEN "throws"
    ELSE IF stored.digestOf = supplied THEN "true"
    ELSE "false"

\* Lines 37-65: comparePasswords, whose catch answers false.
ComparePasswords(supplied, stored) ==
    LET result == ComparePasswordsTry(supplied, stored) IN
    IF result = "throws" THEN FALSE ELSE result = "true"

Salts == {"salt"}

PwGood == <<"A","b","c","d","e","f","1","!">>
PwGood2 == <<"X","y","z","9","?","x","x","x">>
PwSpecExample == <<"a","l","l","l","o","w","e","r","c","a","s","e","1">>
PwShort == <<"A","b","1","!">>
PwNoDigit == <<"A","b","c","d","e","f","g","!">>
PwOtherSymbol == <<"A","b","c","d","e","f","1","-">>
PwNewline == <<"A","b","c","d","e","f","1","!","\n">>
PwTooLong == <<"A","b","1","!">> \o Rep("x", PwMaxLen - 3)
PwLongest == <<"A","b","1","!">> \o Rep("x", PwMaxLen - 4)

\* Two passwords of the greatest length that differ in their last character
\* only, with characters of three bytes.
PwWide == <<"A","b","1","!">> \o Rep("€", PwMaxLen - 4)
PwWide2 == <<"A","b","1","!">> \o Rep("€", PwMaxLen - 5) \o <<"x">>

BadPasswords == {PwSpecExample, PwShort, PwNoDigit, PwOtherSymbol, PwNewline, PwTooLong}

-----------------------------------------------------------------------------
(* The credential store (storage.ts) *)

NoId == 0
NoTime == -1

\* A user row with the column defaults of the users table.
NewUserRow(data) ==
    LET defaults ==
          [ email |-> "", password |-> HashPassword(<<>>, ""), firstName |-> "",
            lastName |-> "", role |-> "team_member", permissionLevel |-> "viewer",
            companyId |-> NoId, isActive |-> TRUE, isEmailVerified |-> FALSE,
            emailVerificationToken |-> "", verificationTokenExpiry |-> NoTime,
            resetToken |-> "", resetExpiry |-> NoTime,
            twoFactorSecret |-> "", twoFactorEnabled |-> FALSE ]
    IN [f \in DOMAIN defaults |-> IF f \in DOMAIN data THEN data[f] ELSE defaults[f]]

\* storage.getUserByEmail: the id of the user with this email, or NoId.
GetUserByEmail(U, email) ==
    IF \E id \in DOMAIN U : U[id].email = email
    THEN CHOOSE id \in DOMAIN U : U[id].email = email
    ELSE NoId

\* storage.getUser / storage.getUserById: NoId when there is no such row.
GetUserById(U, id) == IF id \in DOMAIN U THEN id ELSE NoId

\* storage.getUserByVerificationToken.
GetUserByVerificationToken(U, token) ==
    IF \E id \in DOMAIN U : U[id].emailVerificationToken = token
    THEN CHOOSE id \in DOMAIN U : U[id].emailVerificationToken = token
    ELSE NoId

\* storage.updateUser: the given columns are overwritten, the others kept.
UpdateUser(U, id, patch) ==
    [U EXCEPT ![id] = [f \in DOMAIN @ |-> IF f \in DOMAIN patch THEN patch[f] ELSE @[f]]]

\* storage.upsertUser: insert, or update the row with this id; the email is
\* unique, and a second row with it is refused with the error the register
\* handler looks for ("User with this email already exists").
UpsertUser(U, id, data) ==
    IF \E other \in DOMAIN U : other # id /\ U[other].email = data.email
    THEN [ok |-> FALSE, error |-> "User with this email already exists", users |-> U]
    ELSE IF id \in DOMAIN U
    THEN [ok |-> TRUE, error |-> "", users |-> UpdateUser(U, id, data)]
    ELSE [ok |-> TRUE, error |-> "",
          users |-> [u \in DOMAIN U \cup {id} |-> IF u = id THEN NewUserRow(data) ELSE U[u]]]

\* storage.createUser: a plain insert; the primary key and the email are
\* unique, a duplicate of either is a constraint violation.
CreateUser(U, id, data) ==
    IF id \in DOMAIN U \/ \E other \in DOMAIN U : U[other].email = data.email
    THEN [ok |-> FALSE, error |-> "duplicate key value violates unique constraint", users |-> U]
    ELSE [ok |-> TRUE, error |-> "",
          users |-> [u \in DOMAIN U \cup {id} |-> IF u = id THEN NewUserRow(data) ELSE U[u]]]

\* storage.getCompanyByName: exact match on the name.
GetCompanyByName(C, name) ==
    IF \E id \in DOMAIN C : C[id].name = name
    THEN CHOOSE id \in DOMAIN C : C[id].name = name /\ \A o \in DOMAIN C : C[o].name = name => id <= o
    ELSE NoId

\* storage.getCompanyByShortName.
GetCompanyByShortName(C, shortName) ==
    IF \E id \in DOMAIN C : C[id].shortName = shortName
    THEN CHOOSE id \in DOMAIN C : C[id].shortName = shortName
    ELSE NoId

\* storage.createCompany: the id is the next of the serial; the short name is
\* unique in the store.
CreateCompany(C, data) ==
    IF \E id \in DOMAIN C : C[id].shortName = data.shortName
    THEN [ok |-> FALSE, id |-> NoId, companies |-> C]
    ELSE LET id == Cardinality(DOMAIN C) + 1 IN
         [ok |-> TRUE, id |-> id,
          companies |-> [c \in DOMAIN C \cup {id} |-> IF c = id THEN data ELSE C[c]]]

\* storage.createContractorJoinRequest.
CreateContractorJoinRequest(J, data) == J \cup {data}

\* nanoid(): an id no row has yet.
FreshUserId(U) == CHOOSE id \in 1..(Cardinality(DOMAIN U) + 1) : id \notin DOMAIN U

-----------------------------------------------------------------------------
(* Collaborators: sessions, responses *)

NoRegistrationVerification == [email |-> "", code |-> "", expires |-> NoTime]

\* The payload of a session nothing has been written to.
EmptySession ==
    [userId |-> NoId, emailVerified |-> "",
     registrationVerification |-> NoRegistrationVerification]

\* The stores a handler reads and writes, as one value.
Db == [users |-> users, companies |-> companies,
       joinRequests |-> joinRequests, sessions |-> sessions]

\* A response: status, message, the user it is about, the flags of the body
\* and the columns of the user row the body carries.  A message is kept up
\* to the end of its first sentence, without the "." or "!" that ends it.
Response(status, msg, uid, flags, body) ==
    [status |-> status, msg |-> msg, uid |-> uid, flags |-> flags, body |-> body]

NoResponse == Response(0, "", NoId, {}, {})

PublicRegisterFields == {"id", "email", "firstName", "lastName", "role"}

UserColumns ==
    {"id", "email", "password", "firstName", "lastName", "role", "permissionLevel",
     "companyId", "isActive", "isEmailVerified", "emailVerificationToken",
     "verificationTokenExpiry", "resetToken", "resetExpiry", "twoFactorSecret",
     "twoFactorEnabled"}

VerificationTTL == 1
ResetTTL == 6

-----------------------------------------------------------------------------
(* POST /api/auth/register *)

\* A register request between two awaits: where it is, the session it came
\* with, its body, and the handler's local variables.
NewRegister(sid, p) ==
    [pc |-> "check", sid |-> sid, p |-> p, userId |-> NoId, token |-> "",
     isEmailVerified |-> FALSE, shortName |-> <<>>, branch |-> "",
     stage |-> "", out |-> NoResponse, log |-> {}]

\* console.log(tag, value): the entry keeps the tag and the fields of
\* req.body whose values are printed.
Log(rq, tag, fields) == [rq EXCEPT !.log = @ \cup {[tag |-> tag, fields |-> fields]}]

\* Lines 211-220.
DetectionLog(rq) ==
    Log(rq, "[REGISTRATION DEBUG] Registration type detection:",
        {"userType", "role", "companyName", "companyShortName", "businessNumber"})

\* Line 268.
TeamMemberLog(rq) ==
    Log(rq, "[TEAM MEMBER REGISTRATION] Processing team member registration for:",
        {"email"})

\* Lines 319-327: the third call prints req.body whole.
ContractorLog(rq) ==
    Log(Log(Log(rq, "[CONTRACTOR REGISTRATION] Processing contractor registration for:",
                {"email"}),
            "[CONTRACTOR REGISTRATION] Request body fields:",
            {"companyName", "streetAddress", "city", "province", "country", "postalCode",
             "hasCodeOfConductAgreement", "hasPrivacyPolicyAgreement",
             "hasTermsOfServiceAgreement", "hasDataSharingAgreement", "acceptTerms",
             "acceptBusinessInfo", "acceptContact", "codeOfConductAgreed",
             "contractorCompanyExists", "selectedCompanyId"}),
        "[CONTRACTOR REGISTRATION] Full request body:", DOMAIN rq.p)

\* The response is sent: stage keeps the step that sent it.
Finish(rq, branch, out) ==
    [rq EXCEPT !.pc = "done", !.stage = rq.pc, !.branch = branch, !.out = out]

IsCompanyOwner(p) ==
    TruthyT(p.companyName) /\ TruthyT(p.companyShortName) /\ Truthy(p.businessNumber)

IsTeamMember(p) == p.userType = "team_member"

\* const userRole = role || userType
UserRole(p) == IF Truthy(p.role) THEN p.role ELSE p.userType

AssignedRole(p) ==
    IF IsCompanyOwner(p) THEN "company_admin"
    ELSE IF IsTeamMember(p) THEN "team_member"
    ELSE IF p.userType = "contractor_account_owner" THEN "contractor_account_owner"
    ELSE IF p.userType = "contractor_individual" THEN "contractor_individual"
    ELSE IF UserRole(p) = "contractor_individual" \/ p.userType = "contractor"
         THEN "contractor_individual"
    ELSE IF UserRole(p) = "contractor_account_owner" THEN "contractor_account_owner"
    ELSE "team_member"

\* Lines 177-189: the password pattern, then the existing-user check.
RegisterCheck(db, rq) ==
    IF ~PasswordRegexTest(rq.p.password)
    THEN [db |-> db,
          rq |-> Finish(rq, "", Response(400,
                 "Password must be 8-64 characters with lowercase, uppercase, digit, and symbol",
                 NoId, {}, {}))]
    ELSE IF GetUserByEmail(db.users, rq.p.email) # NoId
    THEN [db |-> db,
          rq |-> Finish(rq, "", Response(400, "User with this email already exists",
                                         NoId, {}, {}))]
    ELSE [db |-> db, rq |-> [rq EXCEPT !.pc = "insert"]]

\* The insert step as it would be without the catch of lines 248-253: the
\* store's refusal falls through to the handler's catch of lines 595-598.
RegisterInsertNoCatch(db, rq0, code, salt, t) ==
    LET rq == DetectionLog(rq0)
        p == rq.p
        userId == FreshUserId(db.users)
        assignedRole == AssignedRole(p)
        userData ==
          [ email |-> p.email, password |-> HashPassword(p.password, salt),
            firstName |-> p.firstName, lastName |-> p.lastName,
            emailVerificationToken |-> code,
            verificationTokenExpiry |-> t + VerificationTTL,
            isEmailVerified |-> FALSE,
            role |-> assignedRole,
            permissionLevel |-> IF assignedRole = "company_admin" THEN "owner" ELSE "editor" ]
        up == UpsertUser(db.users, userId, userData)
        emailVerified == db.sessions[rq.sid].emailVerified
        users2 == IF emailVerified = p.email
                  THEN UpdateUser(up.users, userId, [isEmailVerified |-> TRUE])
                  ELSE up.users
    IN IF ~up.ok
       THEN [db |-> db,
             rq |-> Finish(rq, "", Response(500, "Failed to create account",
                                            NoId, {}, {}))]
       ELSE [db |-> [db EXCEPT !.users = users2],
             rq |-> [rq EXCEPT !.pc = "branch", !.userId = userId, !.token = code,
                               !.isEmailVerified = users2[userId].isEmailVerified]]

\* Lines 196-264: hash, code, id, role detection, upsertUser, and the
\* session's popup verification.
RegisterInsert(db, rq0, code, salt, t) ==
    LET rq == DetectionLog(rq0)
        p == rq.p
        userId == FreshUserId(db.users)
        assignedRole == AssignedRole(p)
        userData ==
          [ email |-> p.email, password |-> HashPassword(p.password, salt),
            firstName |-> p.firstName, lastName |-> p.lastName,
            emailVerificationToken |-> code,
            verificationTokenExpiry |-> t + VerificationTTL,
            isEmailVerified |-> FALSE,
            role |-> assignedRole,
            permissionLevel |-> IF assignedRole = "company_admin" THEN "owner" ELSE "editor" ]
        up == UpsertUser(db.users, userId, userData)
        emailVerified == db.sessions[rq.sid].emailVerified
        users2 == IF emailVerified = p.email
                  THEN UpdateUser(up.users, userId, [isEmailVerified |-> TRUE])
                  ELSE up.users
    IN IF ~up.ok
       THEN [db |-> db,
             rq |-> IF up.error = "User with this email already exists"
                    THEN Finish(rq, "", Response(400, "User with this email already exists",
                                                 NoId, {}, {}))
                    ELSE Finish(rq, "", Response(500, "Failed to create account",
                                                 NoId, {}, {}))]
       ELSE [db |-> [db EXCEPT !.users = users2],
             rq |-> [rq EXCEPT !.pc = "branch", !.userId = userId, !.token = code,
                               !.isEmailVerified = users2[userId].isEmailVerified]]

ShortNameTries == 100

\* Lines 413, 425-429: the contractor loop's candidate for a counter.
ContractorCandidate(base, counter) ==
    IF counter = 1 THEN base
    ELSE IF counter <= 9 THEN Substring0(base, 5) \o NumStr(counter)
    ELSE Substring0(base, 4) \o NumStr(counter)

\* Lines 520, 526: the owner loop's candidate for a counter.
OwnerCandidate(shortName, counter) ==
    IF counter = 1 THEN shortName
    ELSE Substring0(shortName, 5) \o NumStr(counter)

\* The least of a non-empty set of counters.
Least(S) == CHOOSE c \in S : \A d \in S : c <= d

\* Lines 413-430: the contractor branch's search for a free short name,
\* entered with a candidate and its counter.  The loop looks a candidate up
\* while counter <= 100 and leaves at the first that is free; the result is
\* the counter and the candidate the loop ends with.
ContractorShortNameLoop(C, base, name, counter) ==
    LET candidate(c) == IF c = counter THEN name ELSE ContractorCandidate(base, c)
        free == {c \in counter..ShortNameTries :
                   GetCompanyByShortName(C, candidate(c)) = NoId}
    IN IF counter > ShortNameTries THEN [counter |-> counter, name |-> name]
       ELSE IF free # {} THEN [counter |-> Least(free), name |-> candidate(Least(free))]
       ELSE [counter |-> ShortNameTries + 1, name |-> candidate(ShortNameTries + 1)]

\* Lines 524-530: the owner branch's do-while, entered with counter = 2.
\* Its body runs for the counter it is entered with and then while
\* counter < 100; after the last collision the counter is one more and the
\* name is still the candidate that collided.
OwnerShortNameLoop(C, shortName, counter) ==
    LET lastTried == IF counter < ShortNameTries - 1 THEN ShortNameTries - 1 ELSE counter
        free == {c \in counter..lastTried :
                   GetCompanyByShortName(C, OwnerCandidate(shortName, c)) = NoId}
    IN IF free # {}
       THEN [counter |-> Least(free), name |-> OwnerCandidate(shortName, Least(free))]
       ELSE [counter |-> lastTried + 1, name |-> OwnerCandidate(shortName, lastTried)]

\* The team member's branch as it would be if it did not refuse a company
\* that the lookup of lines 277-282 does not find.
RegisterTeamMemberAnyCompany(db, rq) ==
    LET p == rq.p
        existingCompany == GetCompanyByName(db.companies, p.companyName)
    IN IF ~TruthyT(p.companyName)
       THEN [db |-> db,
             rq |-> Finish(rq, "team", Response(400,
                    "Company name is required for team member registration", NoId, {}, {}))]
       ELSE [db |-> [db EXCEPT !.users = UpdateUser(@, rq.userId,
                        [companyId |-> existingCompany, role |-> "team_member",
                         isEmailVerified |-> TRUE])],
             rq |-> Finish(rq, "team", Response(201, "Registration submitted successfully",
                    rq.userId, {"isPending"}, PublicRegisterFields \cup {"companyId"}))]

\* Lines 266-315: team member.
RegisterTeamMember(db, rq) ==
    LET p == rq.p
        existingCompany == GetCompanyByName(db.companies, p.companyName)
    IN IF ~TruthyT(p.companyName)
       THEN [db |-> db,
             rq |-> Finish(rq, "team", Response(400,
                    "Company name is required for team member registration", NoId, {}, {}))]
       ELSE IF existingCompany = NoId
       THEN [db |-> db,
             rq |-> Finish(rq, "team", Response(400, "Company not found", NoId, {}, {}))]
       ELSE [db |-> [db EXCEPT !.users = UpdateUser(@, rq.userId,
                        [companyId |-> existingCompany, role |-> "team_member",
                         isEmailVerified |-> TRUE])],
             rq |-> Finish(rq, "team", Response(201, "Registration submitted successfully",
                    rq.userId, {"isPending"}, PublicRegisterFields \cup {"companyId"}))]

\* Lines 329-376: contractor individual joining an existing company.
RegisterJoinRequest(db, rq) ==
    LET p == rq.p
        created == CreateUser(db.users, rq.userId,
                     [ email |-> p.email, password |-> db.users[rq.userId].password,
                       firstName |-> p.firstName, lastName |-> p.lastName,
                       role |-> UserRole(p),
                       permissionLevel |-> "editor", companyId |-> NoId,
                       isActive |-> FALSE, emailVerificationToken |-> rq.token,
                       verificationTokenExpiry |-> db.users[rq.userId].verificationTokenExpiry,
                       isEmailVerified |-> FALSE ])
        joinRequest == [userId |-> rq.userId, requestedCompanyId |-> p.selectedCompanyId,
                        requestedPermissionLevel |-> "editor", status |-> "pending"]
    IN IF ~created.ok
       THEN \* the rejected insert is thrown to the handler's catch (lines 595-598)
            [db |-> db,
             rq |-> Finish(rq, "join", Response(500, "Failed to create account", NoId, {}, {}))]
       ELSE [db |-> [db EXCEPT !.users = created.users,
                               !.joinRequests = CreateContractorJoinRequest(@, joinRequest)],
             rq |-> Finish(rq, "join", Response(201, "Join request submitted successfully",
                    rq.userId, {"isPending", "isJoinRequest"}, PublicRegisterFields))]

\* Lines 378-436: contractor creating a new company, up to the insert.
RegisterContractorValidate(db, rq) ==
    LET p == rq.p
        codeOfConductAccepted == p.hasCodeOfConductAgreement \/ p.codeOfConductAgreed
        termsAccepted == p.hasTermsOfServiceAgreement \/ p.acceptTerms \/ p.agreeToPortalServices
        businessInfoAccepted == p.hasPrivacyPolicyAgreement \/ p.acceptBusinessInfo \/ p.agreeToBusinessInfo
        contactAccepted == p.hasDataSharingAgreement \/ p.acceptContact \/ p.agreeToContact
        baseShortName == StripNonAlnumUpper(ToUpperCase(Substring0(p.companyName, 6)))
        found == ContractorShortNameLoop(db.companies, baseShortName, baseShortName, 1)
    IN IF ~TruthyT(p.companyName) \/ ~Truthy(p.streetAddress) \/ ~Truthy(p.city)
          \/ ~Truthy(p.province) \/ ~Truthy(p.country)
       THEN [db |-> db,
             rq |-> Finish(rq, "contractor", Response(400,
                    "All business information fields are required for contractor registration",
                    NoId, {}, {}))]
       ELSE IF ~codeOfConductAccepted \/ ~termsAccepted \/ ~businessInfoAccepted \/ ~contactAccepted
       THEN [db |-> db,
             rq |-> Finish(rq, "contractor", Response(400,
                    "You must agree to all terms and conditions to register as a contractor",
                    NoId, {}, {}))]
       ELSE IF found.counter > ShortNameTries
       THEN [db |-> db,
             rq |-> Finish(rq, "contractor", Response(400,
                    "Unable to generate unique company identifier", NoId, {}, {}))]
       ELSE [db |-> db,
             rq |-> [rq EXCEPT !.pc = "create", !.branch = "contractor",
                               !.shortName = found.name]]

\* The owner's branch as it would be without the check of lines 497-501.
RegisterOwnerValidateUnverified(db, rq) ==
    LET p == rq.p
        existingCompany == GetCompanyByShortName(db.companies, p.companyShortName)
        found == IF existingCompany # NoId
                 THEN OwnerShortNameLoop(db.companies, p.companyShortName, 2)
                 ELSE [counter |-> 0, name |-> p.companyShortName]
    IN IF ~TruthyT(p.companyName) \/ ~TruthyT(p.companyShortName) \/ ~Truthy(p.businessNumber)
          \/ ~Truthy(p.streetAddress) \/ ~Truthy(p.city) \/ ~Truthy(p.province)
          \/ ~Truthy(p.country) \/ ~Truthy(p.postalCode) \/ ~Truthy(p.howHeardAbout)
       THEN [db |-> db,
             rq |-> Finish(rq, "owner", Response(400,
                    "All business information fields are required for company owners",
                    NoId, {}, {}))]
       ELSE IF ~p.agreeToPortalServices \/ ~p.agreeToBusinessInfo \/ ~p.agreeToContact
       THEN [db |-> db,
             rq |-> Finish(rq, "owner", Response(400,
                    "You must agree to all terms and conditions to register as a company owner",
                    NoId, {}, {}))]
       ELSE IF existingCompany # NoId /\ found.counter >= ShortNameTries
       THEN [db |-> db,
             rq |-> Finish(rq, "owner", Response(400,
                    "Unable to generate unique company identifier", NoId, {}, {}))]
       ELSE [db |-> db,
             rq |-> [rq EXCEPT !.pc = "create", !.branch = "owner", !.shortName = found.name]]

\* Lines 492-537: company owner, up to the insert.
RegisterOwnerValidate(db, rq) ==
    LET p == rq.p
        existingCompany == GetCompanyByShortName(db.companies, p.companyShortName)
        found == IF existingCompany # NoId
                 THEN OwnerShortNameLoop(db.companies, p.companyShortName, 2)
                 ELSE [counter |-> 0, name |-> p.companyShortName]
    IN IF ~rq.isEmailVerified
       THEN [db |-> db,
             rq |-> Finish(rq, "owner", Response(400,
                    "Email verification is required for company owner registration",
                    NoId, {}, {}))]
       ELSE IF ~TruthyT(p.companyName) \/ ~TruthyT(p.companyShortName) \/ ~Truthy(p.businessNumber)
               \/ ~Truthy(p.streetAddress) \/ ~Truthy(p.city) \/ ~Truthy(p.province)
               \/ ~Truthy(p.country) \/ ~Truthy(p.postalCode) \/ ~Truthy(p.howHeardAbout)
       THEN [db |-> db,
             rq |-> Finish(rq, "owner", Response(400,
                    "All business information fields are required for company owners",
                    NoId, {}, {}))]
       ELSE IF ~p.agreeToPortalServices \/ ~p.agreeToBusinessInfo \/ ~p.agreeToContact
       THEN [db |-> db,
             rq |-> Finish(rq, "owner", Response(400,
                    "You must agree to all terms and conditions to register as a company owner",
                    NoId, {}, {}))]
       ELSE IF existingCompany # NoId /\ found.counter >= ShortNameTries
       THEN [db |-> db,
             rq |-> Finish(rq, "owner", Response(400,
                    "Unable to generate unique company identifier", NoId, {}, {}))]
       ELSE [db |-> db,
             rq |-> [rq EXCEPT !.pc = "create", !.branch = "owner", !.shortName = found.name]]

\* The default branch as it would be if it logged the new account in, as the
\* contractor's and the owner's branches do.
RegisterDefaultLogsIn(db, rq, emailSent) ==
    IF ~emailSent
    THEN [db |-> db,
          rq |-> Finish(rq, "default", Response(500, "Failed to send verification email",
                                                NoId, {}, {}))]
    ELSE [db |-> [db EXCEPT !.sessions[rq.sid].userId = rq.userId],
          rq |-> Finish(rq, "default", Response(201, "Registration successful",
                        NoId, {"requiresEmailVerification"}, {"email", "companyId"}))]

\* Lines 582-594: none of the branches; the verification email is sent.
RegisterDefault(db, rq, emailSent) ==
    IF ~emailSent
    THEN [db |-> db,
          rq |-> Finish(rq, "default", Response(500, "Failed to send verification email",
                                                NoId, {}, {}))]
    ELSE [db |-> db,
          rq |-> Finish(rq, "default", Response(201, "Registration successful",
                        NoId, {"requiresEmailVerification"}, {"email", "companyId"}))]

\* Lines 266-594: the branches in the order the handler tries them.
RegisterBranch(db, rq, emailSent) ==
    LET p == rq.p IN
    IF IsTeamMember(p) THEN RegisterTeamMember(db, TeamMemberLog(rq))
    ELSE IF UserRole(p) = "contractor_individual" \/ UserRole(p) = "contractor_account_owner"
    THEN IF UserRole(p) = "contractor_individual" /\ p.contractorCompanyExists = "yes"
            /\ p.selectedCompanyId # NoId
         THEN RegisterJoinRequest(db, ContractorLog(rq))
         ELSE RegisterContractorValidate(db, ContractorLog(rq))
    ELSE IF IsCompanyOwner(p) THEN RegisterOwnerValidate(db, rq)
    ELSE RegisterDefault(db, rq, emailSent)

LoginFields == PublicRegisterFields \cup {"companyId", "twoFactorEnabled"}

\* Lines 440-489 and 539-580: createCompany, the user's update, the session.
RegisterCreate(db, rq) ==
    LET p == rq.p
        contractor == rq.branch = "contractor"
        made == CreateCompany(db.companies,
                  [name |-> p.companyName, shortName |-> rq.shortName,
                   isContractor |-> contractor])
        patch == IF contractor
                 THEN [companyId |-> made.id, role |-> "contractor_account_owner"]
                 ELSE [companyId |-> made.id, role |-> "company_admin",
                       isEmailVerified |-> TRUE]
    IN IF ~made.ok
       THEN \* the rejected insert is thrown to the handler's catch (lines 595-598)
            [db |-> db,
             rq |-> Finish(rq, rq.branch, Response(500, "Failed to create account",
                                                   NoId, {}, {}))]
       ELSE [db |-> [db EXCEPT !.companies = made.companies,
                               !.users = UpdateUser(@, rq.userId, patch),
                               !.sessions[rq.sid].userId = rq.userId],
             rq |-> Finish(rq, rq.branch, Response(201, "Registration successful",
                           rq.userId, {}, LoginFields))]

\* The handler from its first line to its response, with no other request
\* in between.
RegisterRun(db, rq, code, salt, t, emailSent) ==
    LET s1 == RegisterCheck(db, rq)
        s2 == IF s1.rq.pc = "insert" THEN RegisterInsert(s1.db, s1.rq, code, salt, t) ELSE s1
        s3 == IF s2.rq.pc = "branch" THEN RegisterBranch(s2.db, s2.rq, emailSent) ELSE s2
        s4 == IF s3.rq.pc = "create" THEN RegisterCreate(s3.db, s3.rq) ELSE s3
    IN s4

-----------------------------------------------------------------------------
(* The authentication middleware and the other endpoints.  Each operator   *)
(* gives the stores after the request, the response, and the user the     *)
(* handler resolved (subject).                                             *)

Result(db, subject, out) == [db |-> db, subject |-> subject, out |-> out]

\* Lines 1087-1125: requireAuth.  ok means next() was called with req.user.
RequireAuth(db, sid) ==
    LET userId == db.sessions[sid].userId
        user == GetUserById(db.users, userId)
    IN IF userId = NoId
       THEN [ok |-> FALSE, user |-> NoId,
             out |-> Response(401, "Authentication required", NoId, {}, {})]
       ELSE IF user = NoId
       THEN [ok |-> FALSE, user |-> NoId,
             out |-> Response(401, "User not found", NoId, {}, {})]
       ELSE IF db.users[user].isActive = FALSE
       THEN [ok |-> FALSE, user |-> user,
             out |-> Response(403, "Your account has been deactivated", NoId, {}, {})]
       ELSE [ok |-> TRUE, user |-> user, out |-> NoResponse]

ProfileFields ==
    {"id", "email", "firstName", "lastName", "role", "permissionLevel", "companyId",
     "profileImageUrl"}

\* Lines 740-767: GET /api/auth/user.
GetUser(db, sid) ==
    LET userId == db.sessions[sid].userId
        user == GetUserById(db.users, userId)
    IN IF userId = NoId
       THEN Result(db, NoId, Response(401, "Not authenticated", NoId, {}, {}))
       ELSE IF user = NoId
       THEN Result(db, NoId, Response(401, "User not found", NoId, {}, {}))
       ELSE Result(db, user, Response(200, "", user, {},
                                      ProfileFields \cup {"twoFactorEnabled"}))

\* String.prototype.trim on the names the requests carry.
Trim(name) == IF name = " " THEN "" ELSE name

\* Lines 709-737: PATCH /api/auth/profile, behind requireAuth.
PatchProfile(db, sid, firstName, lastName) ==
    LET auth == RequireAuth(db, sid) IN
    IF ~auth.ok THEN Result(db, auth.user, auth.out)
    ELSE IF ~Truthy(Trim(firstName)) \/ ~Truthy(Trim(lastName))
    THEN Result(db, auth.user,
                Response(400, "First name and last name are required", NoId, {}, {}))
    ELSE Result([db EXCEPT !.users = UpdateUser(@, auth.user,
                    [firstName |-> Trim(firstName), lastName |-> Trim(lastName)])],
                auth.user, Response(200, "", auth.user, {}, ProfileFields))

\* Lines 608-616: POST /api/auth/logout.
Logout(db, sid) ==
    Result([db EXCEPT !.sessions[sid] = EmptySession], NoId,
           Response(200, "Logged out successfully", NoId, {}, {}))

\* request-reset as it would be if it reported an unknown email.
RequestResetRevealing(db, email, resetToken, emailSent, t) ==
    LET user == GetUserByEmail(db.users, email) IN
    IF ~Truthy(email)
    THEN Result(db, NoId, Response(400, "Email is required", NoId, {}, {}))
    ELSE IF user = NoId
    THEN Result(db, NoId, Response(404, "User not found", NoId, {}, {}))
    ELSE Result([db EXCEPT !.users = UpdateUser(@, user,
                    [resetToken |-> resetToken, resetExpiry |-> t + ResetTTL])],
                user,
                Response(200, "If an account exists, reset instructions have been sent",
                         NoId, {}, {}))

\* Lines 630-668: POST /api/auth/request-reset.
RequestReset(db, email, resetToken, emailSent, t) ==
    LET user == GetUserByEmail(db.users, email) IN
    IF ~Truthy(email)
    THEN Result(db, NoId, Response(400, "Email is required", NoId, {}, {}))
    ELSE IF user = NoId
    THEN Result(db, NoId,
                Response(200, "If an account exists, reset instructions have been sent",
                         NoId, {}, {}))
    ELSE Result([db EXCEPT !.users = UpdateUser(@, user,
                    [resetToken |-> resetToken, resetExpiry |-> t + ResetTTL])],
                user,
                Response(200, "If an account exists, reset instructions have been sent",
                         NoId, {}, {}))

\* Lines 675-706: POST /api/auth/reset-password.
ResetPassword(db, email, newPassword, salt) ==
    LET user == GetUserByEmail(db.users, email) IN
    IF ~PasswordRegexTest(newPassword)
    THEN Result(db, NoId, Response(400,
                "Password must be 8-64 characters with lowercase, uppercase, digit, and symbol",
                NoId, {}, {}))
    ELSE IF user = NoId
    THEN Result(db, NoId, Response(404, "User not found", NoId, {}, {}))
    ELSE Result([db EXCEPT !.users = UpdateUser(@, user,
                    [password |-> HashPassword(newPassword, salt)])],
                user, Response(200, "Password updated successfully", NoId, {}, {}))

\* Lines 770-833: POST /api/auth/verify-code.
VerifyCode(db, sid, email, code, t) ==
    LET user == GetUserByEmail(db.users, email) IN
    IF ~Truthy(email) \/ ~Truthy(code)
    THEN Result(db, NoId, Response(400, "Email and verification code are required",
                                   NoId, {}, {}))
    ELSE IF user = NoId
    THEN Result(db, NoId, Response(400, "User not found", NoId, {}, {}))
    ELSE IF db.users[user].isEmailVerified
    THEN Result(db, user, Response(400, "Email is already verified", NoId, {}, {}))
    ELSE IF db.users[user].emailVerificationToken # code
    THEN Result(db, user, Response(400, "Invalid verification code", NoId, {}, {}))
    ELSE IF db.users[user].verificationTokenExpiry # NoTime
            /\ t > db.users[user].verificationTokenExpiry
    THEN Result(db, user, Response(400, "Verification code has expired", NoId, {}, {}))
    ELSE Result([db EXCEPT !.users = UpdateUser(@, user,
                    [isEmailVerified |-> TRUE, emailVerificationToken |-> "",
                     verificationTokenExpiry |-> NoTime]),
                           !.sessions[sid].userId = user],
                user, Response(200, "Email verified successfully", user, {"verified"},
                               UserColumns))

\* Lines 836-869: GET /api/auth/verify-email.
VerifyEmail(db, token) ==
    LET user == GetUserByVerificationToken(db.users, token) IN
    IF ~Truthy(token)
    THEN Result(db, NoId, Response(400, "Verification token is required", NoId, {}, {}))
    ELSE IF user = NoId
    THEN Result(db, NoId, Response(400, "Invalid or expired verification token",
                                   NoId, {}, {}))
    ELSE IF db.users[user].isEmailVerified
    THEN Result(db, user, Response(200, "Email already verified", NoId, {}, {}))
    ELSE Result([db EXCEPT !.users = UpdateUser(@, user,
                    [isEmailVerified |-> TRUE, emailVerificationToken |-> ""])],
                user, Response(200, "Email successfully verified", NoId, {"verified"}, {}))

\* Lines 872-910: POST /api/auth/send-registration-verification.
SendRegistrationVerification(db, sid, email, code, emailSent, t) ==
    LET existingUser == GetUserByEmail(db.users, email) IN
    IF ~Truthy(email)
    THEN Result(db, NoId, Response(400, "Email is required", NoId, {}, {}))
    ELSE IF existingUser # NoId
    THEN Result(db, existingUser,
                Response(400, "User with this email already exists", NoId, {}, {}))
    ELSE Result([db EXCEPT !.sessions[sid].registrationVerification =
                    [email |-> email, code |-> code, expires |-> t + VerificationTTL]],
                NoId,
                IF emailSent
                THEN Response(200, "Verification code sent successfully", NoId, {}, {})
                ELSE Response(500, "Failed to send verification email", NoId, {}, {}))

\* Lines 913-957: POST /api/auth/verify-registration-code.
VerifyRegistrationCode(db, sid, email, code, t) ==
    LET registrationData == db.sessions[sid].registrationVerification
        existingUser == GetUserByEmail(db.users, email)
    IN IF ~Truthy(email) \/ ~Truthy(code)
       THEN Result(db, NoId, Response(400, "Email and verification code are required",
                                      NoId, {}, {}))
       ELSE IF registrationData = NoRegistrationVerification
       THEN Result(db, NoId, Response(400, "No verification session found", NoId, {}, {}))
       ELSE IF registrationData.email # email
       THEN Result(db, NoId, Response(400, "Email does not match verification session",
                                      NoId, {}, {}))
       ELSE IF t > registrationData.expires
       THEN Result(db, NoId, Response(400, "Verification code has expired", NoId, {}, {}))
       ELSE IF registrationData.code # code
       THEN Result(db, NoId, Response(400, "Invalid verification code", NoId, {}, {}))
       ELSE Result([db EXCEPT !.sessions[sid].emailVerified = email,
                              !.users = IF existingUser # NoId
                                        THEN UpdateUser(@, existingUser,
                                                        [isEmailVerified |-> TRUE])
                                        ELSE @],
                   existingUser, Response(200, "Email verified successfully", NoId, {}, {}))

\* Lines 960-1000: POST /api/auth/resend-verification.
ResendVerification(db, email, code, emailSent, t) ==
    LET user == GetUserByEmail(db.users, email) IN
    IF ~Truthy(email)
    THEN Result(db, NoId, Response(400, "Email is required", NoId, {}, {}))
    ELSE IF user = NoId
    THEN Result(db, NoId, Response(404, "User not found", NoId, {}, {}))
    ELSE IF db.users[user].isEmailVerified
    THEN Result(db, user, Response(400, "Email is already verified", NoId, {}, {}))
    ELSE Result([db EXCEPT !.users = UpdateUser(@, user,
                    [emailVerificationToken |-> code,
                     verificationTokenExpiry |-> t + VerificationTTL])],
                user,
                IF emailSent
                THEN Response(200, "Verification email sent", NoId, {"emailSent"}, {})
                ELSE Response(500, "Failed to send verification email", NoId, {}, {}))

\* generateTwoFactorSecret / verifyTwoFactorToken (twoFactorAuth.ts): the
\* token an authenticator shows for a secret at a time, and its check.  An
\* absent token or secret is the empty tuple.
Totp(secret, t) == <<secret, t>>

VerifyTwoFactorToken(token, secret, t) == token = Totp(secret, t)

\* Lines 1003-1023: POST /api/auth/2fa/setup, behind requireAuth.
TwoFactorSetup(db, sid, secret) ==
    LET auth == RequireAuth(db, sid) IN
    IF ~auth.ok THEN Result(db, auth.user, auth.out)
    ELSE IF db.users[auth.user].twoFactorEnabled
    THEN Result(db, auth.user,
                Response(400, "Two-factor authentication is already enabled", NoId, {}, {}))
    ELSE Result(db, auth.user, Response(200, "", NoId, {"secret", secret}, {}))

\* Lines 1026-1051: POST /api/auth/2fa/verify, behind requireAuth.
TwoFactorVerify(db, sid, secret, token, t) ==
    LET auth == RequireAuth(db, sid) IN
    IF ~auth.ok THEN Result(db, auth.user, auth.out)
    ELSE IF ~Truthy(secret) \/ ~TruthyT(token)
    THEN Result(db, auth.user, Response(400, "Secret and token are required", NoId, {}, {}))
    ELSE IF ~VerifyTwoFactorToken(token, secret, t)
    THEN Result(db, auth.user, Response(400, "Invalid verification code", NoId, {}, {}))
    ELSE Result([db EXCEPT !.users = UpdateUser(@, auth.user,
                    [twoFactorSecret |-> secret, twoFactorEnabled |-> TRUE])],
                auth.user,
                Response(200, "Two-factor authentication enabled successfully",
                         NoId, {}, {}))

\* /2fa/disable as it would be if it did not check the token against the
\* persisted secret.
TwoFactorDisableUnchecked(db, sid, token, t) ==
    LET auth == RequireAuth(db, sid) IN
    IF ~auth.ok THEN Result(db, auth.user, auth.out)
    ELSE IF ~db.users[auth.user].twoFactorEnabled \/ ~Truthy(db.users[auth.user].twoFactorSecret)
    THEN Result(db, auth.user,
                Response(400, "Two-factor authentication is not enabled", NoId, {}, {}))
    ELSE IF ~TruthyT(token)
    THEN Result(db, auth.user, Response(400, "Verification code is required", NoId, {}, {}))
    ELSE Result([db EXCEPT !.users = UpdateUser(@, auth.user,
                    [twoFactorSecret |-> "", twoFactorEnabled |-> FALSE])],
                auth.user,
                Response(200, "Two-factor authentication disabled successfully",
                         NoId, {}, {}))

\* Lines 1054-1083: POST /api/auth/2fa/disable, behind requireAuth.
TwoFactorDisable(db, sid, token, t) ==
    LET auth == RequireAuth(db, sid) IN
    IF ~auth.ok THEN Result(db, auth.user, auth.out)
    ELSE IF ~db.users[auth.user].twoFactorEnabled \/ ~Truthy(db.users[auth.user].twoFactorSecret)
    THEN Result(db, auth.user,
                Response(400, "Two-factor authentication is not enabled", NoId, {}, {}))
    ELSE IF ~TruthyT(token)
    THEN Result(db, auth.user, Response(400, "Verification code is required", NoId, {}, {}))
    ELSE IF ~VerifyTwoFactorToken(token, db.users[auth.user].twoFactorSecret, t)
    THEN Result(db, auth.user, Response(400, "Invalid verification code", NoId, {}, {}))
    ELSE Result([db EXCEPT !.users = UpdateUser(@, auth.user,
                    [twoFactorSecret |-> "", twoFactorEnabled |-> FALSE])],
                auth.user,
                Response(200, "Two-factor authentication disabled successfully",
                         NoId, {}, {}))

\* The administrator's deactivation of an account (outside auth.ts).
DeactivateUser(db, id) ==
    Result([db EXCEPT !.users = UpdateUser(@, id, [isActive |-> FALSE])], id, NoResponse)

-----------------------------------------------------------------------------
(* Inputs *)

Sids == {"s1", "s2"}
Emails == {"a@x.io", "b@x.io"}
Codes == {"111111", "222222"}
ResetTokens == {"r1", "r2"}
Secrets == {"K1", "K2"}
FirstNames == {"Bea", " "}
LastNames == {"Lee"}

NameAcme == <<"A","c","m","e"," ","I","n","c">>
NameBeta == <<"B","e","t","a">>
ShortAcme == <<"A","C","M","E","I">>

Hint(userType, role) == [userType |-> userType, role |-> role]

\* A register body.  owner: short name and business number are sent;
\* address: the address fields are sent; agreeC / agreeO: the contractor's
\* four agreements / the owner's three are ticked; join: the company-exists
\* flag and a selected company are sent.
Payload(email, password, hint, companyName, owner, address, agreeC, agreeO, join) ==
    [ email |-> email, password |-> password, firstName |-> "Ann", lastName |-> "Lee",
      userType |-> hint.userType, role |-> hint.role,
      companyName |-> companyName,
      companyShortName |-> IF owner THEN ShortAcme ELSE <<>>,
      businessNumber |-> IF owner THEN "BN1" ELSE "",
      streetAddress |-> IF address THEN "1 Main St" ELSE "",
      city |-> IF address THEN "Calgary" ELSE "",
      province |-> IF address THEN "AB" ELSE "",
      country |-> IF address THEN "Canada" ELSE "",
      postalCode |-> IF address THEN "T2P" ELSE "",
      howHeardAbout |-> IF address THEN "web" ELSE "",
      agreeToPortalServices |-> agreeO, agreeToBusinessInfo |-> agreeO,
      agreeToContact |-> agreeO,
      hasCodeOfConductAgreement |-> agreeC, hasPrivacyPolicyAgreement |-> agreeC,
      hasTermsOfServiceAgreement |-> agreeC, hasDataSharingAgreement |-> agreeC,
      acceptTerms |-> FALSE, acceptBusinessInfo |-> FALSE, acceptContact |-> FALSE,
      codeOfConductAgreed |-> FALSE,
      contractorCompanyExists |-> IF join THEN "yes" ELSE "",
      selectedCompanyId |-> IF join THEN 1 ELSE NoId ]

\* The register bodies tried, for one email: each branch alone, each
\* rejection of each branch, and bodies that signal several branches.
PayloadsFor(e) ==
    { \* default branch, without and with a contractor hint
      Payload(e, PwGood, Hint("", ""), <<>>, FALSE, FALSE, FALSE, FALSE, FALSE),
      Payload(e, PwGood, Hint("contractor", ""), <<>>, FALSE, FALSE, FALSE, FALSE, FALSE),
      \* team member: with a company name, without one, with the owner's
      \* fields too, with the join flags and a contractor role too
      Payload(e, PwGood, Hint("team_member", ""), NameAcme, FALSE, FALSE, FALSE, FALSE, FALSE),
      Payload(e, PwGood, Hint("team_member", ""), <<>>, FALSE, FALSE, FALSE, FALSE, FALSE),
      Payload(e, PwGood, Hint("team_member", ""), NameBeta, FALSE, FALSE, FALSE, FALSE, FALSE),
      Payload(e, PwGood, Hint("team_member", ""), NameAcme, TRUE, TRUE, TRUE, TRUE, FALSE),
      Payload(e, PwGood, Hint("team_member", "contractor_individual"), NameAcme,
              FALSE, TRUE, TRUE, TRUE, TRUE),
      \* contractor joining a company, alone and with the other branches' fields
      Payload(e, PwGood, Hint("contractor_individual", ""), <<>>, FALSE, FALSE, FALSE, FALSE, TRUE),
      Payload(e, PwGood, Hint("contractor_account_owner", "contractor_individual"), NameAcme,
              TRUE, TRUE, TRUE, TRUE, TRUE),
      \* contractor creating a company: complete, with the owner's fields too,
      \* without the address, without the agreements
      Payload(e, PwGood, Hint("contractor_account_owner", ""), NameAcme,
              FALSE, TRUE, TRUE, FALSE, FALSE),
      Payload(e, PwGood, Hint("contractor_individual", ""), NameAcme,
              TRUE, TRUE, TRUE, TRUE, FALSE),
      Payload(e, PwGood, Hint("", "contractor_account_owner"), NameAcme,
              FALSE, FALSE, TRUE, FALSE, FALSE),
      Payload(e, PwGood, Hint("contractor_individual", ""), NameAcme,
              FALSE, TRUE, FALSE, TRUE, FALSE),
      \* company owner: complete, without the address, without the agreements
      Payload(e, PwGood, Hint("", ""), NameAcme, TRUE, TRUE, FALSE, TRUE, FALSE),
      Payload(e, PwGood, Hint("", ""), NameAcme, TRUE, FALSE, FALSE, TRUE, FALSE),
      Payload(e, PwGood, Hint("", ""), NameAcme, TRUE, TRUE, TRUE, FALSE, FALSE) }

\* Passwords the pattern refuses, in bodies of the owner's, the team
\* member's, the contractor's and the default branch.
BadPasswordPayloadsFor(e) ==
    { Payload(e, pw, Hint("", ""), NameAcme, TRUE, TRUE, TRUE, TRUE, FALSE) :
        pw \in BadPasswords }
    \cup
    { Payload(e, pw, h, NameAcme, FALSE, TRUE, TRUE, FALSE, FALSE) :
        pw \in {PwSpecExample, PwNoDigit},
        h \in {Hint("team_member", ""), Hint("contractor_account_owner", "")} }
    \cup
    { Payload(e, PwShort, Hint("", ""), <<>>, FALSE, FALSE, FALSE, FALSE, FALSE) }

RegisterPayloads ==
    UNION {PayloadsFor(e) : e \in Emails} \cup BadPasswordPayloadsFor("a@x.io")

\* The bodies sent to an email that is taken: the default branch's, and
\* those with a password the pattern refuses.
DuplicatePayloads ==
    { Payload(e, PwGood, Hint("", ""), <<>>, FALSE, FALSE, FALSE, FALSE, FALSE) :
        e \in Emails }
    \cup BadPasswordPayloadsFor("a@x.io")

\* A contractor's complete registration, which logs the new account in.
ContractorPayloads ==
    { Payload(e, PwGood, Hint("contractor_account_owner", ""), NameAcme,
              FALSE, TRUE, TRUE, FALSE, FALSE) : e \in Emails }

\* Registrations that leave the account unverified: the default branch and
\* a contractor's complete registration.
UnverifiedPayloads ==
    ContractorPayloads \cup
    { Payload(e, PwGood, Hint("", ""), <<>>, FALSE, FALSE, FALSE, FALSE, FALSE) :
        e \in Emails }

\* A contractor asking to join an existing company, and the default branch.
JoinPayloads ==
    { Payload(e, PwGood, Hint("contractor_individual", ""), <<>>,
              FALSE, FALSE, FALSE, FALSE, TRUE) : e \in Emails }
    \cup
    { Payload(e, PwGood, Hint("", ""), <<>>, FALSE, FALSE, FALSE, FALSE, FALSE) :
        e \in Emails }

-----------------------------------------------------------------------------
(* The state machine *)

\* The body of a request that is not a register request.
NoPayload ==
    Payload("", <<>>, Hint("", ""), <<>>, FALSE, FALSE, FALSE, FALSE, FALSE)

\* What the request handled last was and did: the endpoint, the session and
\* the email and password it carried, the user it resolved, its response,
\* for a register request its body, the branch that handled it and the step
\* that answered, and what the request added to the stores (the user row
\* and the company row it inserted, the user id it wrote to the session,
\* whether it inserted a join request).
Event(ep, sid, email, password, branch, db0, db1, subject, out) ==
    [ ep |-> ep, sid |-> sid, email |-> email, password |-> password,
      branch |-> branch, stage |-> "", req |-> NoPayload, secret |-> "", token |-> <<>>,
      log |-> {}, resetToken |-> "",
      subject |-> subject,
      status |-> out.status, msg |-> out.msg, flags |-> out.flags, body |-> out.body,
      bodyUser |-> out.uid,
      uid |-> IF DOMAIN db1.users = DOMAIN db0.users THEN NoId
              ELSE CHOOSE id \in DOMAIN db1.users : id \notin DOMAIN db0.users,
      cid |-> IF DOMAIN db1.companies = DOMAIN db0.companies THEN NoId
              ELSE CHOOSE id \in DOMAIN db1.companies : id \notin DOMAIN db0.companies,
      login |-> IF sid \in Sids /\ db1.sessions[sid].userId # db0.sessions[sid].userId
                THEN db1.sessions[sid].userId ELSE NoId,
      joined |-> db1.joinRequests # db0.joinRequests ]

EmptyDb ==
    [users |-> <<>>, companies |-> <<>>, joinRequests |-> {},
     sessions |-> [s \in Sids |-> EmptySession]]

NoEvent == Event("", "", "", <<>>, "", EmptyDb, EmptyDb, NoId, NoResponse)

Commit(db) ==
    /\ users' = db.users
    /\ companies' = db.companies
    /\ joinRequests' = db.joinRequests
    /\ sessions' = db.sessions

\* An endpoint other than register: handled from request to response.
Handle(ep, sid, email, password, r) ==
    /\ Commit(r.db)
    /\ last' = Event(ep, sid, email, password, "", Db, r.db, r.subject, r.out)
    /\ UNCHANGED <<now, regBranch, inflight, boot, call>>

\* A two-factor endpoint: the event keeps the secret and the token sent.
HandleTwoFactor(ep, sid, secret, token, r) ==
    /\ Commit(r.db)
    /\ last' = [Event(ep, sid, "", <<>>, "", Db, r.db, r.subject, r.out)
                EXCEPT !.secret = secret, !.token = token]
    /\ UNCHANGED <<now, regBranch, inflight, boot, call>>

\* The mailer is called by the register handler's default branch only.
RegisterMailOutcomes(p) ==
    IF IsTeamMember(p) \/ UserRole(p) \in {"contractor_individual", "contractor_account_owner"}
       \/ IsCompanyOwner(p)
    THEN {TRUE} ELSE BOOLEAN

(***************************************************************************)
(* setupAuth, lines 67-160: the checks on the environment and the choice   *)
(* of the session store that precede the registration of the routes.       *)
(***************************************************************************)

\* An environment variable that was never set.
Unset == "<unset>"

\* JavaScript truthiness of process.env.X: unset and "" are both falsy.
EnvSet(v) == v # Unset /\ Truthy(v)

NodeEnvs == {"production", "development", Unset}
SessionSecrets == {Unset, "", "s3cret"}
DatabaseUrls == {Unset, "", "postgres://db"}

\* process.env as setupAuth reads it, and whether the database answers.
Envs ==
    [NODE_ENV : NodeEnvs, SESSION_SECRET : SessionSecrets,
     DATABASE_URL : DatabaseUrls, reachable : BOOLEAN]

DevSecret == "dev-secret-key-change-in-production"

\* setupAuth is entered.
NewBoot(env) ==
    [env |-> env, pc |-> "secret", secret |-> "", store |-> "none",
     tableCreated |-> FALSE, createTableIfMissing |-> FALSE,
     routes |-> FALSE, error |-> ""]

\* Lines 69-84: the secret is required in production only; elsewhere the
\* development secret stands in for a missing one.
CheckSecret(b) ==
    IF ~EnvSet(b.env.SESSION_SECRET) /\ b.env.NODE_ENV = "production"
    THEN [b EXCEPT !.pc = "threw",
                   !.error = "SESSION_SECRET environment variable must be set in production"]
    ELSE [b EXCEPT !.pc = "store",
                   !.secret = IF EnvSet(b.env.SESSION_SECRET)
                              THEN b.env.SESSION_SECRET ELSE DevSecret]

\* Lines 91-136: initializeSessionTable catches every error of the pool and
\* answers false; nothing is thrown to setupAuth.
InitializeSessionTable(b) ==
    [b EXCEPT !.pc = "pgstore", !.tableCreated = b.env.reachable]

\* Lines 138-150: the PostgreSQL store is constructed without a query; its
\* errors are logged by errorLog.
PgSessionStore(b) ==
    [b EXCEPT !.pc = "routes", !.store = "pg",
              !.createTableIfMissing = ~b.tableCreated]

\* Lines 151-157: without DATABASE_URL, production throws and every other
\* environment keeps express-session's memory store.
MemoryStore(b) ==
    IF b.env.NODE_ENV = "production"
    THEN [b EXCEPT !.pc = "threw",
                   !.error = "DATABASE_URL must be set in production for session storage"]
    ELSE [b EXCEPT !.pc = "routes", !.store = "memory"]

\* Lines 159-160 and the app.get/app.post calls that follow them.
RegisterRoutes(b) == [b EXCEPT !.pc = "done", !.routes = TRUE]

DevEnv ==
    [NODE_ENV |-> "development", SESSION_SECRET |-> Unset,
     DATABASE_URL |-> Unset, reachable |-> FALSE]

\* The server the requests of the other specifications are sent to.
Booted == RegisterRoutes(MemoryStore(CheckSecret(NewBoot(DevEnv))))

(***************************************************************************)
(* client/src/lib/permissions.ts: the role table and the predicates the    *)
(* client asks before it shows or runs an operation.                       *)
(***************************************************************************)

\* A property that is absent from an object, and a null or absent user.
Undefined == "<undefined>"

NullUser == [present |-> FALSE, role |-> Undefined, permissionLevel |-> Undefined]

\* user?.role
RoleOf(user) == IF user.present THEN user.role ELSE Undefined

\* Lines 3-39.
PERMISSIONS ==
    { "manage_company", "view_company",
      "invite_team_members", "manage_team_members", "view_team_members",
      "create_facilities", "edit_facilities", "delete_facilities", "view_facilities",
      "create_applications", "edit_applications", "submit_applications",
      "delete_applications", "view_applications", "review_applications",
      "upload_documents", "delete_documents", "view_documents", "download_documents",
      "manage_contractors", "view_contractors",
      "system_admin" }

ContractorLeadPermissions ==
    { "view_company", "invite_team_members", "manage_team_members", "view_team_members",
      "view_facilities", "view_applications", "edit_applications",
      "upload_documents", "view_documents", "download_documents",
      "manage_contractors", "view_contractors" }

MemberPermissions ==
    { "view_company", "view_team_members", "view_facilities", "view_applications",
      "view_documents", "download_documents", "view_contractors" }

\* Lines 44-133.
ROLE_PERMISSIONS ==
    [ company_admin |-> PERMISSIONS \ {"review_applications", "system_admin"},
      team_member |-> MemberPermissions,
      contractor_individual |->
        { "view_company", "view_facilities", "view_applications",
          "upload_documents", "view_documents", "download_documents" },
      contractor_account_owner |-> ContractorLeadPermissions,
      contractor_manager |-> ContractorLeadPermissions,
      contractor_team_member |-> MemberPermissions,
      system_admin |-> PERMISSIONS ]

\* Lines 136-139: ROLE_PERMISSIONS[userRole] || [].
HasPermission(userRole, permission) ==
    LET rolePermissions == IF userRole \in DOMAIN ROLE_PERMISSIONS
                           THEN ROLE_PERMISSIONS[userRole] ELSE {}
    IN permission \in rolePermissions

\* Lines 141-143: Array.prototype.some.
HasAnyPermission(userRole, permissions) ==
    \E i \in DOMAIN permissions : HasPermission(userRole, permissions[i])

\* Lines 145-147: Array.prototype.every, true of the empty array.
HasAllPermissions(userRole, permissions) ==
    \A i \in DOMAIN permissions : HasPermission(userRole, permissions[i])

PermissionLevels == <<"viewer", "editor", "manager", "owner">>

\* Array.prototype.indexOf: the position from 0, or -1.
IndexOf(arr, x) ==
    IF \E i \in DOMAIN arr : arr[i] = x
    THEN (CHOOSE i \in DOMAIN arr : arr[i] = x /\ \A j \in 1..(i - 1) : arr[j] # x) - 1
    ELSE -1

\* Lines 178-193.
HasPermissionLevel(user, requiredLevel) ==
    IF ~user.present THEN FALSE
    ELSE IF user.role = "company_admin" \/ user.role = "system_admin" THEN TRUE
    ELSE IF user.role = "team_member"
    THEN LET userLevel == IF user.permissionLevel \in {Undefined, ""}
                          THEN "viewer" ELSE user.permissionLevel
             userIdx == IndexOf(PermissionLevels, userLevel)
             reqIdx == IndexOf(PermissionLevels, requiredLevel)
         IN userIdx >= reqIdx
    ELSE FALSE

\* Lines 195-197.
CanInviteUsers(user) ==
    RoleOf(user) = "company_admin" \/ HasPermissionLevel(user, "manager")

\* Lines 199-201.
CanEditPermissions(user) ==
    RoleOf(user) = "company_admin" \/ HasPermissionLevel(user, "manager")

\* Lines 203-209.
CanCreateEdit(user) ==
    \/ RoleOf(user) = "company_admin"
    \/ RoleOf(user) = "system_admin"
    \/ RoleOf(user) = "contractor_account_owner"
    \/ RoleOf(user) = "contractor_manager"
    \/ HasPermissionLevel(user, "editor")

\* Lines 211-213.
CanViewOnly(user) == HasPermissionLevel(user, "viewer")

\* The roles tried: those of the role table, a contractor role and a role
\* the table does not know, and a user object without a role.
PermRoles ==
    DOMAIN ROLE_PERMISSIONS \cup {"contractor_guest", "guest", Undefined}

\* user?.role?.startsWith('contractor_'), on the roles tried.
StartsWithContractor(user) ==
    RoleOf(user) \in { "contractor_individual", "contractor_account_owner",
                       "contractor_manager", "contractor_team_member",
                       "contractor_guest" }

\* Array.prototype.includes.
Includes(arr, x) == \E i \in DOMAIN arr : arr[i] = x

\* canContractorEdit as it would be if a team member's "view" assignment
\* were enough to edit.
CanContractorEditByView(user, applicationPermissions) ==
    IF ~StartsWithContractor(user) THEN FALSE
    ELSE IF user.role \in {"contractor_individual", "contractor_account_owner",
                           "contractor_manager"}
    THEN TRUE
    ELSE IF user.role = "contractor_team_member" /\ user.permissionLevel = "manager"
    THEN TRUE
    ELSE IF user.role = "contractor_team_member"
    THEN Includes(applicationPermissions, "view")
         \/ Includes(applicationPermissions, "edit")
    ELSE FALSE

\* Lines 240-263.
CanContractorEdit(user, applicationPermissions) ==
    IF ~StartsWithContractor(user) THEN FALSE
    ELSE IF user.role \in {"contractor_individual", "contractor_account_owner",
                           "contractor_manager"}
    THEN TRUE
    ELSE IF user.role = "contractor_team_member" /\ user.permissionLevel = "manager"
    THEN TRUE
    ELSE IF user.role = "contractor_team_member"
    THEN Includes(applicationPermissions, "edit")
    ELSE FALSE

\* Lines 265-288.
CanContractorView(user, applicationPermissions) ==
    IF ~StartsWithContractor(user) THEN FALSE
    ELSE IF user.role \in {"contractor_individual", "contractor_account_owner",
                           "contractor_manager"}
    THEN TRUE
    ELSE IF user.role = "contractor_team_member" /\ user.permissionLevel = "manager"
    THEN TRUE
    ELSE IF user.role = "contractor_team_member"
    THEN Includes(applicationPermissions, "view")
         \/ Includes(applicationPermissions, "edit")
    ELSE FALSE

\* Lines 291-309.
CanManageContractorTeam(user) ==
    IF ~StartsWithContractor(user) THEN FALSE
    ELSE IF user.role \in {"contractor_individual", "contractor_account_owner",
                           "contractor_manager"}
    THEN TRUE
    ELSE IF user.role = "contractor_team_member" /\ user.permissionLevel = "manager"
    THEN TRUE
    ELSE FALSE

\* The arguments tried.
MaxListLen == 2

UserLevels == {Undefined, "viewer", "editor", "manager", "owner", "admin"}

PermUsers ==
    {NullUser} \cup [present : {TRUE}, role : PermRoles, permissionLevel : UserLevels]

RequiredLevels == {"viewer", "editor", "manager", "owner", "admin"}

PermissionArgs == {"view_applications", "manage_company", "system_admin"}

\* The entries of a permission list and of an application's assignment list.
ListItems == {"view", "edit", "view_applications"}

RECURSIVE SeqsUpTo(_, _)
SeqsUpTo(S, n) ==
    IF n = 0 THEN {<<>>}
    ELSE LET shorter == SeqsUpTo(S, n - 1)
         IN shorter \cup {Append(q, x) : q \in shorter, x \in S}

ListArgs == SeqsUpTo(ListItems, MaxListLen)

NoCall ==
    [fn |-> "", user |-> NullUser, permission |-> "", list |-> <<>>,
     requiredLevel |-> "", result |-> FALSE]

Init ==
    /\ users = <<>>
    /\ companies = <<>>
    /\ joinRequests = {}
    /\ sessions = [s \in Sids |-> EmptySession]
    /\ now = 0
    /\ last = NoEvent
    /\ regBranch = <<>>
    /\ inflight = <<>>
    /\ boot = Booted
    /\ call = NoCall

\* The branch each user row was inserted under.
Remember(rq) ==
    IF rq.userId # NoId /\ rq.userId \notin DOMAIN regBranch
    THEN [u \in DOMAIN regBranch \cup {rq.userId} |->
            IF u = rq.userId THEN rq.branch ELSE regBranch[u]]
    ELSE regBranch

\* The event of a register request: the user row is the one the request
\* inserted, in whichever of its steps.
RegisterEvent(rq, db0, db1) ==
    [Event("register", rq.sid, rq.p.email, rq.p.password, rq.branch, db0, db1,
           rq.userId, rq.out)
     EXCEPT !.uid = rq.userId, !.stage = rq.stage, !.req = rq.p, !.log = rq.log]

\* POST /register on a session of S with a body of P and a verification
\* code of C.  The handler reads nothing but the password and the email of
\* a body before it refuses a taken email (lines 178-189): to a taken email
\* the bodies of DuplicatePayloads are sent, and no others.
RegisterWith(S, P, C) ==
    /\ Cardinality(DOMAIN users) < MaxUsers
    /\ \E sid \in S, p \in P, code \in C :
      /\ GetUserByEmail(users, p.email) # NoId => p \in DuplicatePayloads
      /\ \E emailSent \in RegisterMailOutcomes(p) :
        \E r \in {RegisterRun(Db, NewRegister(sid, p), code, "salt", now, emailSent)} :
          /\ Commit(r.db)
          /\ last' = RegisterEvent(r.rq, Db, r.db)
          /\ regBranch' = Remember(r.rq)
          /\ UNCHANGED <<now, inflight, boot, call>>

Register == RegisterWith({"s1"}, RegisterPayloads, {"111111"})

RegisterContractor == RegisterWith(Sids, ContractorPayloads, {"111111"})

RegisterUnverified == RegisterWith({"s1"}, UnverifiedPayloads, {"111111"})

DoGetUser == \E sid \in Sids : Handle("user", sid, "", <<>>, GetUser(Db, sid))

DoPatchProfile ==
    \E sid \in {"s1"}, f \in FirstNames, l \in LastNames :
      Handle("profile", sid, "", <<>>, PatchProfile(Db, sid, f, l))

DoLogout == \E sid \in Sids : Handle("logout", sid, "", <<>>, Logout(Db, sid))

DoRequestReset ==
    \E e \in Emails \cup {""}, tok \in ResetTokens, emailSent \in BOOLEAN :
      Handle("request-reset", "", e, <<>>, RequestReset(Db, e, tok, emailSent, now))

\* The request comes on any session or on none, with any reset token or
\* with none in its body; the handler reads the email and the new password.
DoResetPassword ==
    \E sid \in Sids \cup {""}, tok \in ResetTokens \cup {""},
       e \in Emails, pw \in {PwGood2, PwSpecExample} :
      \E r \in {ResetPassword(Db, e, pw, "salt")} :
        /\ Commit(r.db)
        /\ last' = [Event("reset-password", sid, e, pw, "", Db, r.db, r.subject, r.out)
                    EXCEPT !.resetToken = tok]
        /\ UNCHANGED <<now, regBranch, inflight, boot, call>>

DoVerifyCode ==
    \E sid \in Sids, e \in Emails, code \in Codes \cup {""} :
      Handle("verify-code", sid, e, <<>>, VerifyCode(Db, sid, e, code, now))

DoVerifyEmail ==
    \E token \in Codes \cup {""} :
      Handle("verify-email", "", "", <<>>, VerifyEmail(Db, token))

DoSendRegistrationVerification ==
    \E sid \in {"s1"}, e \in Emails, code \in {"111111"}, emailSent \in BOOLEAN :
      Handle("send-registration-verification", sid, e, <<>>,
             SendRegistrationVerification(Db, sid, e, code, emailSent, now))

DoVerifyRegistrationCode ==
    \E sid \in {"s1"}, e \in Emails, code \in Codes :
      Handle("verify-registration-code", sid, e, <<>>,
             VerifyRegistrationCode(Db, sid, e, code, now))

DoResendVerification ==
    \E e \in Emails, code \in Codes, emailSent \in BOOLEAN :
      Handle("resend-verification", "", e, <<>>,
             ResendVerification(Db, e, code, emailSent, now))

DoTwoFactorSetup ==
    \E sid \in Sids, secret \in Secrets :
      Handle("2fa/setup", sid, "", <<>>, TwoFactorSetup(Db, sid, secret))

DoTwoFactorVerify ==
    \E sid \in Sids, secret \in Secrets \cup {""}, k \in Secrets, present \in BOOLEAN :
      LET token == IF present THEN Totp(k, now) ELSE <<>> IN
      HandleTwoFactor("2fa/verify", sid, secret, token,
                      TwoFactorVerify(Db, sid, secret, token, now))

DoTwoFactorDisable ==
    \E sid \in Sids, k \in Secrets, present \in BOOLEAN :
      LET token == IF present THEN Totp(k, now) ELSE <<>> IN
      HandleTwoFactor("2fa/disable", sid, "", token,
                      TwoFactorDisable(Db, sid, token, now))

Deactivate ==
    \E id \in DOMAIN users :
      /\ users[id].isActive
      /\ Handle("deactivate", "", "", <<>>, DeactivateUser(Db, id))

Tick ==
    /\ now < MaxTime
    /\ now' = now + 1
    /\ last' = [NoEvent EXCEPT !.ep = "tick"]
    /\ UNCHANGED <<users, companies, joinRequests, sessions, regBranch, inflight, boot, call>>

\* Registration, with the popup verification that precedes it.
Next ==
    \/ Register
    \/ DoSendRegistrationVerification
    \/ DoVerifyRegistrationCode

Spec == Init /\ [][Next]_vars

\* Email verification of the accounts registration leaves unverified.
NextVerify ==
    \/ RegisterUnverified
    \/ DoVerifyCode
    \/ DoVerifyEmail
    \/ DoResendVerification
    \/ Tick

SpecVerify == Init /\ [][NextVerify]_vars

RegisterJoin == RegisterWith({"s1"}, JoinPayloads, {"111111"})

\* Join requests, with the endpoints that verify an email or a code.
NextJoin ==
    \/ RegisterJoin
    \/ DoResendVerification
    \/ DoVerifyCode
    \/ DoVerifyEmail
    \/ DoVerifyRegistrationCode
    \/ Tick

SpecJoin == Init /\ [][NextJoin]_vars

\* The endpoints behind a session, and the administrator's deactivation.
NextAuth ==
    \/ RegisterContractor
    \/ DoGetUser
    \/ DoPatchProfile
    \/ DoTwoFactorSetup
    \/ DoTwoFactorVerify
    \/ DoTwoFactorDisable
    \/ DoLogout
    \/ Deactivate

SpecAuth == Init /\ [][NextAuth]_vars

\* Password reset.
NextReset ==
    \/ RegisterContractor
    \/ DoRequestReset
    \/ DoResetPassword

SpecReset == Init /\ [][NextReset]_vars

\* The default branch's body, for each email.
DefaultPayloads ==
    { Payload(e, PwGood, Hint("", ""), <<>>, FALSE, FALSE, FALSE, FALSE, FALSE) :
        e \in Emails }

RegisterPlain == RegisterWith({"s1"}, DefaultPayloads, {"111111"})

\* The three verification endpoints and the clock.
NextExpiry ==
    \/ RegisterPlain
    \/ DoVerifyCode
    \/ DoVerifyEmail
    \/ DoSendRegistrationVerification
    \/ DoVerifyRegistrationCode
    \/ Tick

SpecExpiry == Init /\ [][NextExpiry]_vars

-----------------------------------------------------------------------------
(* Concurrent register requests: each await of the handler is a point     *)
(* where another request's step may run.                                   *)

\* Two bodies for one email, with two passwords so that a row tells which
\* request wrote it, and two for another email; two of the four found the
\* same company.
ConcPayloads ==
    { Payload("a@x.io", PwGood, Hint("contractor_account_owner", ""), NameAcme,
              FALSE, TRUE, TRUE, FALSE, FALSE),
      Payload("b@x.io", PwGood, Hint("contractor_account_owner", ""), NameAcme,
              FALSE, TRUE, TRUE, FALSE, FALSE),
      Payload("a@x.io", PwLongest, Hint("", ""), <<>>, FALSE, FALSE, FALSE, FALSE, FALSE),
      Payload("b@x.io", PwGood, Hint("", ""), <<>>, FALSE, FALSE, FALSE, FALSE, FALSE) }

\* The request in slot i has run one step, with result r.
Advance(i, r) ==
    /\ Commit(r.db)
    /\ IF r.rq.pc = "done"
       THEN /\ last' = RegisterEvent(r.rq, Db, r.db)
            /\ regBranch' = Remember(r.rq)
            /\ inflight' = [j \in DOMAIN inflight \ {i} |-> inflight[j]]
       ELSE /\ inflight' = [inflight EXCEPT ![i] = r.rq]
            /\ UNCHANGED <<last, regBranch>>
    /\ UNCHANGED <<now, boot, call>>

ConcStart ==
    /\ Cardinality(DOMAIN users) < MaxUsers
    /\ Cardinality(DOMAIN inflight) < MaxInflight
    /\ \E sid \in {"s1"}, p \in ConcPayloads :
         LET i == CHOOSE j \in 1..MaxInflight : j \notin DOMAIN inflight IN
         inflight' = [j \in DOMAIN inflight \cup {i} |->
                        IF j = i THEN NewRegister(sid, p) ELSE inflight[j]]
    /\ UNCHANGED <<users, companies, joinRequests, sessions, now, last, regBranch, boot, call>>

ConcCheck ==
    \E i \in DOMAIN inflight :
      /\ inflight[i].pc = "check"
      /\ Advance(i, RegisterCheck(Db, inflight[i]))

ConcInsert ==
    \E i \in DOMAIN inflight :
      /\ inflight[i].pc = "insert"
      /\ Advance(i, RegisterInsert(Db, inflight[i], "111111", "salt", now))

ConcBranch ==
    \E i \in DOMAIN inflight :
      /\ inflight[i].pc = "branch"
      /\ \E emailSent \in RegisterMailOutcomes(inflight[i].p) :
           Advance(i, RegisterBranch(Db, inflight[i], emailSent))

ConcCreate ==
    \E i \in DOMAIN inflight :
      /\ inflight[i].pc = "create"
      /\ Advance(i, RegisterCreate(Db, inflight[i]))

NextConc ==
    \/ ConcStart
    \/ ConcCheck
    \/ ConcInsert
    \/ ConcBranch
    \/ ConcCreate

SpecConc == Init /\ [][NextConc]_vars

(***************************************************************************)
(* Start-up: setupAuth run step by step in every environment.              *)
(***************************************************************************)

InitBoot ==
    /\ users = <<>>
    /\ companies = <<>>
    /\ joinRequests = {}
    /\ sessions = [s \in Sids |-> EmptySession]
    /\ now = 0
    /\ last = NoEvent
    /\ regBranch = <<>>
    /\ inflight = <<>>
    /\ boot \in {NewBoot(env) : env \in Envs}
    /\ call = NoCall

BootStep(b) ==
    /\ boot' = b
    /\ UNCHANGED <<users, companies, joinRequests, sessions, now, last, regBranch,
                   inflight, call>>

SetupCheckSecret == boot.pc = "secret" /\ BootStep(CheckSecret(boot))

SetupInitializeSessionTable ==
    /\ boot.pc = "store"
    /\ EnvSet(boot.env.DATABASE_URL)
    /\ BootStep(InitializeSessionTable(boot))

SetupPgSessionStore == boot.pc = "pgstore" /\ BootStep(PgSessionStore(boot))

SetupMemoryStore ==
    /\ boot.pc = "store"
    /\ ~EnvSet(boot.env.DATABASE_URL)
    /\ BootStep(MemoryStore(boot))

SetupRegisterRoutes == boot.pc = "routes" /\ BootStep(RegisterRoutes(boot))

NextBoot ==
    \/ SetupCheckSecret
    \/ SetupInitializeSessionTable
    \/ SetupPgSessionStore
    \/ SetupMemoryStore
    \/ SetupRegisterRoutes

SpecBoot == InitBoot /\ [][NextBoot]_vars

(***************************************************************************)
(* The permission predicates, each applied to every argument tried.        *)
(***************************************************************************)

InitPerm ==
    /\ users = <<>>
    /\ companies = <<>>
    /\ joinRequests = {}
    /\ sessions = [s \in Sids |-> EmptySession]
    /\ now = 0
    /\ last = NoEvent
    /\ regBranch = <<>>
    /\ inflight = <<>>
    /\ boot = Booted
    /\ call \in [fn : {""}, user : PermUsers, permission : PermissionArgs,
                 list : ListArgs, requiredLevel : RequiredLevels, result : {FALSE}]

\* The predicate fn is called on the arguments drawn and answers result.
Apply(fn, result) ==
    /\ call.fn = ""
    /\ call' = [call EXCEPT !.fn = fn, !.result = result]
    /\ UNCHANGED <<users, companies, joinRequests, sessions, now, last, regBranch,
                   inflight, boot>>

CallHasPermission ==
    Apply("hasPermission", HasPermission(RoleOf(call.user), call.permission))

CallHasAnyPermission ==
    Apply("hasAnyPermission", HasAnyPermission(RoleOf(call.user), call.list))

CallHasAllPermissions ==
    Apply("hasAllPermissions", HasAllPermissions(RoleOf(call.user), call.list))

CallHasPermissionLevel ==
    Apply("hasPermissionLevel", HasPermissionLevel(call.user, call.requiredLevel))

CallCanInviteUsers == Apply("canInviteUsers", CanInviteUsers(call.user))

CallCanEditPermissions == Apply("canEditPermissions", CanEditPermissions(call.user))

CallCanCreateEdit == Apply("canCreateEdit", CanCreateEdit(call.user))

CallCanViewOnly == Apply("canViewOnly", CanViewOnly(call.user))

CallCanContractorEdit ==
    Apply("canContractorEdit", CanContractorEdit(call.user, call.list))

CallCanContractorView ==
    Apply("canContractorView", CanContractorView(call.user, call.list))

CallCanManageContractorTeam ==
    Apply("canManageContractorTeam", CanManageContractorTeam(call.user))

NextPerm ==
    \/ CallHasPermission
    \/ CallHasAnyPermission
    \/ CallHasAllPermissions
    \/ CallHasPermissionLevel
    \/ CallCanInviteUsers
    \/ CallCanEditPermissions
    \/ CallCanCreateEdit
    \/ CallCanViewOnly
    \/ CallCanContractorEdit
    \/ CallCanContractorView
    \/ CallCanManageContractorTeam

SpecPerm == InitPerm /\ [][NextPerm]_vars

(***************************************************************************)
(* comparePasswords, applied to every supplied password and stored value   *)
(* tried.                                                                  *)
(***************************************************************************)

SuppliedPasswords == {<<>>, PwGood, PwGood2, PwLongest, PwWide, PwWide2}

StoredValues ==
    {HashPassword(pw, salt) : pw \in SuppliedPasswords, salt \in Salts}
    \cup {LegacyStored(pw, salt, n) : pw \in SuppliedPasswords, salt \in {"", "ab12"},
                                      n \in {ScryptKeyLen, ScryptKeyLen \div 2}}
    \cup {[HashPassword(PwGood, "salt") EXCEPT !.digestBytes = 0], NoStored}

InitCompare ==
    /\ users = <<>>
    /\ companies = <<>>
    /\ joinRequests = {}
    /\ sessions = [s \in Sids |-> EmptySession]
    /\ now = 0
    /\ last = NoEvent
    /\ regBranch = <<>>
    /\ inflight = <<>>
    /\ boot = Booted
    /\ call \in [fn : {""}, supplied : SuppliedPasswords, stored : StoredValues,
                 result : {FALSE}]

CallComparePasswords ==
    Apply("comparePasswords", ComparePasswords(call.supplied, call.stored))

NextCompare == CallComparePasswords

SpecCompare == InitCompare /\ [][NextCompare]_vars

(***************************************************************************)
(* Registration into a store that already holds the companies whose short  *)
(* names the disambiguation loops would try.                               *)
(***************************************************************************)

\* The store after n companies took the candidates of one of the loops.
Crowd(kind, n) ==
    [id \in 1..n |->
       [name |-> NameBeta,
        shortName |-> IF kind = "contractor" THEN ContractorCandidate(ShortAcme, id)
                      ELSE OwnerCandidate(ShortAcme, id),
        isContractor |-> kind = "contractor"]]

\* A company owner's complete registration.
OwnerPayloads ==
    { Payload("a@x.io", PwGood, Hint("", ""), NameAcme, TRUE, TRUE, FALSE, TRUE, FALSE) }

\* The companies are there, and session s1 has verified a@x.io in the popup.
InitCrowded ==
    /\ users = <<>>
    /\ companies \in {Crowd(kind, n) : kind \in {"contractor", "owner"},
                                       n \in 0..(ShortNameTries + 1)}
    /\ joinRequests = {}
    /\ sessions = [s \in Sids |-> IF s = "s1"
                                  THEN [EmptySession EXCEPT !.emailVerified = "a@x.io"]
                                  ELSE EmptySession]
    /\ now = 0
    /\ last = NoEvent
    /\ regBranch = <<>>
    /\ inflight = <<>>
    /\ boot = Booted
    /\ call = NoCall

RegisterOwner == RegisterWith({"s1"}, OwnerPayloads, {"111111"})

RegisterNewContractor == RegisterWith({"s1"}, ContractorPayloads, {"111111"})

NextCrowded ==
    \/ RegisterOwner
    \/ RegisterNewContractor

SpecCrowded == InitCrowded /\ [][NextCrowded]_vars

-----------------------------------------------------------------------------
\* Properties.

\* The user of the session the last request came on, NoId when the session
\* carries no user id or the row is gone.
SessionUserOfLast ==
    IF last.sid \in Sids THEN GetUserById(users, sessions[last.sid].userId) ELSE NoId

\* The endpoints that require an authenticated, active account.
AuthRequiredEndpoints == {"user", "profile", "2fa/setup", "2fa/verify", "2fa/disable"}

\* C1: once a user's isActive is false, a request on that user's session to an
\* endpoint that requires an authenticated account (GET /api/auth/user,
\* PATCH /api/auth/profile, /api/auth/2fa/*) is answered 403 and carries no
\* user data.
C1_DeactivatedUserGets403 ==
    ( /\ last.ep \in AuthRequiredEndpoints
      /\ SessionUserOfLast # NoId
      /\ ~users[SessionUserOfLast].isActive )
    => (last.status = 403 /\ last.body = {} /\ last.bodyUser = NoId)

\* C2: a successful POST /api/auth/reset-password leaves no reset token and no
\* reset expiry on the account, so the token that was issued cannot be used a
\* second time.
C2_ResetTokenSingleUse ==
    (last.ep = "reset-password" /\ last.status = 200 /\ last.subject # NoId)
    => /\ users[last.subject].resetToken = ""
       /\ users[last.subject].resetExpiry = NoTime

\* The stores without the account of this email.
WithoutAccount(db, email) ==
    [db EXCEPT !.users = [id \in {i \in DOMAIN db.users : db.users[i].email # email}
                            |-> db.users[id]]]

EmailsUnique ==
    \A i \in DOMAIN users, j \in DOMAIN users :
        users[i].email = users[j].email => i = j

\* A step keeps every row's email, password hash and names.
RowsNotOverwritten ==
    \A u \in DOMAIN users :
        /\ u \in DOMAIN users'
        /\ users'[u].email = users[u].email
        /\ users'[u].password = users[u].password
        /\ users'[u].firstName = users[u].firstName
        /\ users'[u].lastName = users[u].lastName

\* C4: of register requests for the same email that run concurrently, both
\* past the existing-user check, at most one inserts a user row; the one
\* refused at the insert is answered 400 "User with this email already
\* exists" and has created nothing; no two rows ever carry the same email,
\* and no step overwrites the email, password hash or names of a row.
C4_ConcurrentRegisterSameEmail ==
    /\ [](EmailsUnique
          /\ ((last.ep = "register" /\ last.stage = "insert")
              => /\ last.status = 400
                 /\ last.msg = "User with this email already exists"
                 /\ last.uid = NoId /\ last.cid = NoId /\ last.login = NoId))
    /\ [][RowsNotOverwritten]_vars

\* A request got past the existing-user check and was refused at the insert,
\* the row of the request that won is there, and it is not the loser's: the
\* two carried different passwords.
C4_Witness ==
    /\ last.ep = "register" /\ last.stage = "insert"
    /\ \E u \in DOMAIN users :
         /\ users[u].email = last.email
         /\ users[u].password.digestOf # last.password

\* The password policy as the specification words it: 8 to 64 characters,
\* with a lowercase letter, an uppercase letter, a digit and a symbol (a
\* character that is neither a letter nor a digit).
PolicyConforming(pw) ==
    /\ Len(pw) >= 8 /\ Len(pw) <= 64
    /\ \E i \in DOMAIN pw : IsLower(pw[i])
    /\ \E i \in DOMAIN pw : IsUpper(pw[i])
    /\ \E i \in DOMAIN pw : IsDigit(pw[i])
    /\ \E i \in DOMAIN pw : ~IsLower(pw[i]) /\ ~IsUpper(pw[i]) /\ ~IsDigit(pw[i])

\* C5: a register request whose password violates the policy (length 8-64,
\* a lowercase letter, an uppercase letter, a digit, a symbol) is answered
\* 400 and creates no user row, no company and no join request and logs no
\* session in, whatever else its body carries.
C5_BadPasswordRejected ==
    (last.ep = "register" /\ ~PolicyConforming(last.password))
    => /\ last.status = 400
       /\ last.uid = NoId /\ last.cid = NoId /\ last.login = NoId /\ ~last.joined
       /\ GetUserByEmail(users, last.email) = NoId
          \/ users[GetUserByEmail(users, last.email)].password.digestOf # last.password

\* The specification's example "alllowercase1" was sent with a complete
\* company owner's body and refused.
C5_Witness ==
    /\ last.ep = "register"
    /\ last.password = PwSpecExample
    /\ last.status = 400
    /\ IsCompanyOwner(last.req)

\* The branch the priority order team member > contractor joining >
\* contractor creating > company owner > default gives a register body.
BranchByPriority(p) ==
    LET contractorRole == IF p.role # "" THEN p.role ELSE p.userType IN
    IF p.userType = "team_member" THEN "team"
    ELSE IF /\ contractorRole = "contractor_individual"
            /\ p.contractorCompanyExists = "yes" /\ p.selectedCompanyId # NoId
    THEN "join"
    ELSE IF contractorRole \in {"contractor_individual", "contractor_account_owner"}
    THEN "contractor"
    ELSE IF p.companyName # <<>> /\ p.companyShortName # <<>> /\ p.businessNumber # ""
    THEN "owner"
    ELSE "default"

\* The role of each branch.
RoleOfBranch ==
    [ team |-> "team_member", join |-> "contractor_individual",
      contractor |-> "contractor_account_owner", owner |-> "company_admin" ]

\* C6: a register request that gets past the password and existing-user
\* checks is handled by the branch the priority order gives its body, and
\* unless it is refused for its input (400) the role stored on the user row
\* of its email is the role of that branch, also when the body signals
\* several branches.
C6_BranchPriorityAndRole ==
    (last.ep = "register" /\ last.stage \notin {"check", "insert"})
    => /\ last.branch = BranchByPriority(last.req)
       /\ (last.status # 400 /\ last.branch \in DOMAIN RoleOfBranch
           /\ GetUserByEmail(users, last.email) # NoId)
          => users[GetUserByEmail(users, last.email)].role = RoleOfBranch[last.branch]

\* C7: a company owner's registration succeeds only on a session that records
\* a completed popup verification of exactly its email; refused, it creates
\* no company and logs no session in; on success the user row has role
\* company_admin, permission level owner, isEmailVerified true and the id of
\* a company that exists, and the session carries the user's id.
C7_OwnerNeedsVerifiedEmail ==
    (last.ep = "register" /\ last.branch = "owner")
    => IF last.status = 201
       THEN /\ sessions[last.sid].emailVerified = last.email
            /\ last.uid \in DOMAIN users
            /\ users[last.uid].email = last.email
            /\ users[last.uid].role = "company_admin"
            /\ users[last.uid].permissionLevel = "owner"
            /\ users[last.uid].isEmailVerified
            /\ users[last.uid].companyId # NoId
            /\ users[last.uid].companyId \in DOMAIN companies
            /\ last.cid = users[last.uid].companyId
            /\ sessions[last.sid].userId = last.uid
       ELSE /\ last.cid = NoId
            /\ last.login = NoId
            /\ sessions[last.sid].userId # last.uid \/ last.uid = NoId

\* An owner's registration has succeeded, and another was refused for want of
\* the verification.
C7_Witness ==
    /\ last.ep = "register" /\ last.branch = "owner" /\ last.status = 201
    /\ \E u \in DOMAIN users :
         /\ users[u].role = "company_admin"
         /\ ~users[u].isEmailVerified
         /\ users[u].companyId = NoId

\* C8: a contractor_individual registration with the company-exists flag and
\* a selected company ends with exactly one user row of its email, inactive
\* and with no company id, exactly one pending join request of that user for
\* that company, no user id written to the session, and the response 201
\* with isPending and isJoinRequest.
C8_JoinRequestOutcome ==
    (last.ep = "register" /\ last.branch = "join")
    => /\ last.status = 201
       /\ {"isPending", "isJoinRequest"} \subseteq last.flags
       /\ last.login = NoId
       /\ \E u \in DOMAIN users :
            /\ users[u].email = last.email
            /\ \A v \in DOMAIN users : users[v].email = last.email => v = u
            /\ ~users[u].isActive
            /\ users[u].companyId = NoId
            /\ Cardinality({j \in joinRequests :
                              /\ j.userId = u
                              /\ j.requestedCompanyId = last.req.selectedCompanyId
                              /\ j.status = "pending"}) = 1

\* C9: a team member's registration naming a company that does not exist is
\* refused with 400; naming one that exists it ends with a user row carrying
\* that company's id, role team_member and isEmailVerified true, a response
\* with isPending, and no user id written to the session.
C9_TeamMemberOutcome ==
    (last.ep = "register" /\ last.branch = "team")
    => IF GetCompanyByName(companies, last.req.companyName) = NoId
       THEN last.status = 400 /\ last.login = NoId /\ last.cid = NoId
       ELSE /\ last.status = 201
            /\ "isPending" \in last.flags
            /\ last.uid \in DOMAIN users
            /\ users[last.uid].email = last.email
            /\ users[last.uid].companyId = GetCompanyByName(companies, last.req.companyName)
            /\ companies[users[last.uid].companyId].name = last.req.companyName
            /\ users[last.uid].role = "team_member"
            /\ users[last.uid].isEmailVerified
            /\ last.login = NoId
            /\ \A s \in Sids : sessions[s].userId # last.uid

\* A team member has registered into a company that exists, with a body that
\* carried the owner's fields too.
C9_Witness ==
    /\ last.ep = "register" /\ last.branch = "team" /\ last.status = 201
    /\ IsCompanyOwner(last.req)
    /\ last.uid \in DOMAIN users


\* The accounts the default branch created.
DefaultAccounts == {u \in DOMAIN regBranch : regBranch[u] = "default"}

\* A step that writes the id of a default-branch account to a session is a
\* successful verify-code for that account on that session, taken while the
\* account was unverified and its code was stored and had not expired.
SessionOnlyByVerifyCode ==
    \A s \in Sids, u \in DOMAIN users :
        ( /\ u \in DefaultAccounts
          /\ sessions'[s].userId = u
          /\ sessions[s].userId # u )
        => /\ last'.ep = "verify-code" /\ last'.status = 200
           /\ last'.subject = u /\ last'.sid = s /\ last'.email = users[u].email
           /\ ~users[u].isEmailVerified
           /\ users[u].emailVerificationToken \in Codes
           /\ \/ users[u].verificationTokenExpiry = NoTime
              \/ now <= users[u].verificationTokenExpiry
           /\ users'[u].isEmailVerified

\* C10: for an account the default branch created, the registration writes no
\* user id to the session, and the account's id gets into a session only by a
\* successful POST /api/auth/verify-code: no session carries it between the
\* registration and that verification.
C10_DefaultNoSessionBeforeVerify ==
    /\ []( /\ (last.ep = "register" /\ last.branch = "default")
              => /\ last.login = NoId
                 /\ \A s \in Sids : sessions[s].userId # last.uid
           /\ \A s \in Sids :
                sessions[s].userId \in DefaultAccounts
                => users[sessions[s].userId].isEmailVerified )
    /\ [][SessionOnlyByVerifyCode]_vars

\* A default-branch account has verified its code and is in the session.
C10_Witness ==
    /\ last.ep = "verify-code" /\ last.status = 200
    /\ last.subject \in DefaultAccounts
    /\ sessions[last.sid].userId = last.subject

\* The endpoints that verify an email by an account's stored code.
StoredCodeEndpoints == {"verify-code", "verify-email"}

\* A step that marks an email verified uses a code that has not expired: an
\* account goes from unverified to verified by its stored code only while
\* the stored expiry has not passed, and verify-registration-code succeeds
\* only while the session-held code's expiry has not passed.
VerifiedOnlyByUnexpiredCode ==
    /\ \A u \in DOMAIN users :
         ( /\ ~users[u].isEmailVerified
           /\ users'[u].isEmailVerified
           /\ last'.ep \in StoredCodeEndpoints )
         => \/ users[u].verificationTokenExpiry = NoTime
            \/ now <= users[u].verificationTokenExpiry
    /\ (last'.ep = "verify-registration-code" /\ last'.status = 200)
       => now <= sessions[last'.sid].registrationVerification.expires

\* C11: a verification code whose expiry has passed never causes an email to
\* be marked verified, at POST /verify-code, GET /verify-email and
\* POST /verify-registration-code alike.
C11_ExpiredCodeNeverVerifies == [][VerifiedOnlyByUnexpiredCode]_vars

\* C12: verifying consumes the code.  After a successful POST /verify-code
\* the token and its expiry are cleared and the same request again, with any
\* code, is refused as "already verified"; after a successful
\* POST /verify-registration-code the session-held code is accepted no more.
C12_VerifyingConsumesCode ==
    /\ (last.ep = "verify-code" /\ last.status = 200)
       => /\ users[last.subject].emailVerificationToken = ""
          /\ users[last.subject].verificationTokenExpiry = NoTime
          /\ \A code \in Codes, sid \in Sids :
               LET again == VerifyCode(Db, sid, last.email, code, now).out IN
               again.status = 400 /\ again.msg = "Email is already verified"
    /\ (last.ep = "verify-registration-code" /\ last.status = 200)
       => \A code \in Codes :
            VerifyRegistrationCode(Db, last.sid, last.email, code, now).out.status # 200

\* While two-factor authentication is enabled for a user, a /2fa/verify
\* request is not answered with success and keeps the persisted secret.
EnabledSecretKept ==
    \A u \in DOMAIN users :
        (users[u].twoFactorEnabled /\ last'.ep = "2fa/verify")
        => /\ users'[u].twoFactorSecret = users[u].twoFactorSecret
           /\ last'.subject = u => last'.status # 200

\* C13: POST /2fa/verify is rejected when the user already has two-factor
\* authentication enabled: while twoFactorEnabled is true no confirmation
\* request changes the persisted secret.
C13_VerifyRejectedWhenEnabled == [][EnabledSecretKept]_vars

\* A step that changes a user's two-factor secret or flag is a /2fa/verify
\* answered with success whose token is valid for the secret it submitted,
\* which is then persisted and enabled, or a /2fa/disable answered with
\* success whose token is valid for the persisted secret, which is then
\* cleared and disabled.
TwoFactorChangedByToken ==
    \A u \in DOMAIN users :
        ( \/ u \notin DOMAIN users'
          \/ users'[u].twoFactorSecret # users[u].twoFactorSecret
          \/ users'[u].twoFactorEnabled # users[u].twoFactorEnabled )
        => /\ u \in DOMAIN users'
           /\ last'.subject = u /\ last'.status = 200
           /\ \/ /\ last'.ep = "2fa/verify"
                 /\ last'.token # <<>> /\ last'.secret # ""
                 /\ VerifyTwoFactorToken(last'.token, last'.secret, now)
                 /\ users'[u].twoFactorEnabled
                 /\ users'[u].twoFactorSecret = last'.secret
              \/ /\ last'.ep = "2fa/disable"
                 /\ users[u].twoFactorEnabled
                 /\ last'.token # <<>>
                 /\ VerifyTwoFactorToken(last'.token, users[u].twoFactorSecret, now)
                 /\ ~users'[u].twoFactorEnabled
                 /\ users'[u].twoFactorSecret = ""

\* C14: a user's two-factor state changes only through a successful token
\* check: it is enabled only by a /2fa/verify whose token is valid for the
\* submitted secret and disabled, with the secret cleared, only by a
\* /2fa/disable whose token is valid for the persisted secret; /2fa/setup and
\* requests with a missing or invalid token leave secret and flag unchanged;
\* a new account has neither.
C14_TwoFactorChangesOnlyByToken ==
    /\ [](\A u \in DOMAIN users :
            /\ users[u].twoFactorEnabled => users[u].twoFactorSecret # ""
            /\ (last.ep = "register" /\ last.uid = u)
               => ~users[u].twoFactorEnabled /\ users[u].twoFactorSecret = "")
    /\ [][TwoFactorChangedByToken]_vars

\* Two-factor authentication was enabled and has been disabled again.
C14_Witness ==
    /\ last.ep = "2fa/disable" /\ last.status = 200
    /\ last.subject \in DOMAIN users
    /\ ~users[last.subject].twoFactorEnabled
    /\ users[last.subject].twoFactorSecret = ""


\* What production needs before it may serve: a session secret, a database
\* connection string and a session store that answers.
ProductionReady(env) ==
    /\ EnvSet(env.SESSION_SECRET)
    /\ EnvSet(env.DATABASE_URL)
    /\ env.reachable

\* C15: in production setupAuth refuses to start, throwing before any route
\* is registered, whenever the session secret is absent, the connection
\* string is absent or the durable session store cannot be reached at
\* startup, and it never completes with the in-memory session store.
C15_ProductionRefusesToStart ==
    boot.env.NODE_ENV = "production" =>
      /\ ~ProductionReady(boot.env) => boot.pc # "done" /\ ~boot.routes
      /\ boot.pc = "done" => boot.store # "memory"


\* The row's password field is hashPassword's output for the raw password.
StoredAsHashOf(u, raw) ==
    /\ u \in DOMAIN users
    /\ \E salt \in Salts : users[u].password = HashPassword(raw, salt)

\* C16: on every registration path and on password reset the persisted
\* password is the output of hashPassword, never the raw password, and the
\* raw password appears in no log output of the request.
C16_PasswordHashedNeverLogged ==
    /\ last.ep = "register" /\ last.uid # NoId => StoredAsHashOf(last.uid, last.password)
    /\ last.ep = "reset-password" /\ last.status = 200
         => StoredAsHashOf(last.subject, last.password)
    /\ last.ep \in {"register", "reset-password"}
         => \A entry \in last.log : "password" \notin entry.fields


\* C17: every permission predicate answers false for a null or absent user
\* and for a user without a role, whatever the permission, the permission
\* list (the empty list included), the required level and the assignment
\* list.
C17_AbsentUserUnauthorized ==
    call.fn # "" /\ RoleOf(call.user) = Undefined => ~call.result


\* The entries of a list.
Entries(list) == {list[i] : i \in DOMAIN list}

ContractorLeads ==
    {"contractor_account_owner", "contractor_manager", "contractor_individual"}

NonContractorRoles == {"company_admin", "system_admin", "team_member", "guest", Undefined}

\* What the contractor predicate is to answer when `needed` are the
\* assignments that grant the operation.
ContractorAnswer(needed) ==
    LET role == RoleOf(call.user) IN
    /\ role \in ContractorLeads => call.result
    /\ role = "contractor_team_member"
         => (call.result <=> \/ call.user.permissionLevel = "manager"
                             \/ Entries(call.list) \cap needed # {})
    /\ role \in NonContractorRoles => ~call.result

\* C18: canContractorEdit is true for every contractor_account_owner,
\* contractor_manager and contractor_individual whatever the assignment
\* list, true for a contractor_team_member exactly when the permission level
\* is manager or the list contains "edit", and false for every
\* non-contractor role; canContractorView is the same with "view" or "edit".
C18_ContractorEditAndView ==
    /\ call.fn = "canContractorEdit" => ContractorAnswer({"edit"})
    /\ call.fn = "canContractorView" => ContractorAnswer({"view", "edit"})

\* A viewer of a contractor team edits the application assigned to them for
\* view and edit.
C18_Witness ==
    /\ call.fn = "canContractorEdit"
    /\ call.user.present
    /\ call.user.role = "contractor_team_member"
    /\ call.user.permissionLevel = "viewer"
    /\ call.list = <<"view", "edit">>
    /\ call.result

TeamMemberRoles == {"team_member", "contractor_team_member"}

\* The position of a level in viewer < editor < manager < owner.
LevelRank(level) ==
    CASE level = "viewer" -> 1
      [] level = "editor" -> 2
      [] level = "manager" -> 3
      [] level = "owner" -> 4
      [] OTHER -> 0

\* C19: hasPermissionLevel is true for every company_admin and system_admin;
\* for a team_member or contractor_team_member it is true exactly when the
\* user's level is at or above the required level in the order viewer <
\* editor < manager < owner, and a required level outside that order is
\* never satisfied by a team member.
C19_PermissionLevelOrder ==
    call.fn = "hasPermissionLevel" /\ call.user.present =>
      /\ call.user.role \in {"company_admin", "system_admin"} => call.result
      /\ call.user.role \in TeamMemberRoles /\ LevelRank(call.user.permissionLevel) > 0
           => (call.result <=> /\ LevelRank(call.requiredLevel) > 0
                               /\ LevelRank(call.user.permissionLevel)
                                    >= LevelRank(call.requiredLevel))


\* The first n alphanumeric characters of a name, in upper case.
FirstAlnumUpper(name, n) == Substring0(StripNonAlnumUpper(ToUpperCase(name)), n)

\* The base of the short name of the company the last registration made.
ShortNameBase ==
    IF last.branch = "contractor" THEN FirstAlnumUpper(last.req.companyName, 6)
    ELSE last.req.companyShortName

\* The base truncated and suffixed with a counter of at least 2.
Suffixed(base, shortName) ==
    \E counter \in 2..ShortNameTries, keep \in {4, 5} :
      shortName = Substring0(base, keep) \o NumStr(counter)

\* C20: when a registration that creates a company succeeds, the company's
\* short name differs from that of every other company; it is the base, or
\* on collision the base truncated and suffixed with a counter of at least
\* 2, where the contractor branch's base is the first 6 alphanumeric
\* characters of the company name in upper case.
C20_ShortNameUniqueFromBase ==
    last.ep = "register" /\ last.status = 201 /\ last.cid # NoId =>
      LET shortName == companies[last.cid].shortName
          others == {companies[c].shortName : c \in DOMAIN companies \ {last.cid}}
      IN /\ shortName \notin others
         /\ IF ShortNameBase \in others THEN Suffixed(ShortNameBase, shortName)
            ELSE shortName = ShortNameBase


GaveUp ==
    /\ last.ep = "register"
    /\ last.status = 400
    /\ last.msg = "Unable to generate unique company identifier"

\* The companies that were there before the last registration.
CompaniesBefore == [c \in DOMAIN companies \ {last.cid} |-> companies[c]]

\* The short name the contractor's loop finds for a base.
ContractorChoice(base) == ContractorShortNameLoop(CompaniesBefore, base, base, 1).name

\* The short name the owner's lookup and loop find for a base.
OwnerChoice(base) ==
    IF GetCompanyByShortName(CompaniesBefore, base) = NoId THEN base
    ELSE OwnerShortNameLoop(CompaniesBefore, base, 2).name

\* C21: the short-name loops terminate: a registration whose candidates all
\* collide ends with "Unable to generate unique company identifier" and
\* creates no company; neither branch gives up before 100 candidates
\* collided, and both branches try the same candidates for the same base.
C21_ShortNameLoopGivesUpAfter100 ==
    /\ GaveUp => /\ last.cid = NoId
                 /\ Cardinality(DOMAIN companies) >= ShortNameTries
    /\ last.ep = "register" /\ last.status = 201 /\ last.cid # NoId
         => LET shortName == companies[last.cid].shortName IN
            /\ shortName = ContractorChoice(ShortAcme)
            /\ shortName = OwnerChoice(ShortAcme)


CompanyBranches == {"contractor", "owner"}

\* C22: when two company-creating registrations run concurrently and pick
\* the same candidate short name, the one whose insert the store refuses
\* retries with the next candidate: neither ends in a 500, each creates its
\* company, and the companies' short names differ.
C22_ConcurrentCompaniesRetry ==
    /\ last.ep = "register" /\ last.branch \in CompanyBranches /\ last.stage = "create"
         => last.status = 201 /\ last.cid # NoId
    /\ \A c \in DOMAIN companies, d \in DOMAIN companies :
         companies[c].shortName = companies[d].shortName => c = d


\* C23: comparePasswords answers a boolean for every supplied password and
\* stored value; a value without the current prefix and without a salt
\* after a delimiter, or with a digest of another length, gives false; and
\* for a conforming password P, a supplied password verifies against
\* hashPassword(P) exactly when it is P.
C23_ComparePasswordsFailsClosed ==
    call.fn = "comparePasswords" =>
      /\ call.result \in BOOLEAN
      /\ call.stored.prefix # "$2b$"
           /\ (call.stored.salt = "" \/ call.stored.digestBytes # ScryptKeyLen)
           => ~call.result
      /\ \A pw \in SuppliedPasswords, salt \in Salts :
           PasswordRegexTest(pw) /\ call.stored = HashPassword(pw, salt)
             => (call.result <=> call.supplied = pw)


\* The request that led to this step proves control of user u's account: its
\* session is authenticated as u, or it presents the unexpired reset token
\* stored for u.
ProvesControl(u) ==
    \/ /\ last'.sid \in Sids
       /\ sessions[last'.sid].userId = u
    \/ /\ last'.resetToken # ""
       /\ last'.resetToken = users[u].resetToken
       /\ now <= users[u].resetExpiry

PasswordResetOnlyWithProof ==
    \A u \in DOMAIN users :
      (last'.ep = "reset-password" /\ users'[u].password # users[u].password)
        => ProvesControl(u)

\* C24: POST /reset-password changes a user's stored password only when the
\* request presents the unexpired reset token stored for that user or its
\* session is authenticated as that user.
C24_ResetNeedsTokenOrSession == [][PasswordResetOnlyWithProof]_vars


RejectedRegisterKeepsStore ==
    (last'.ep = "register" /\ last'.status = 400)
      => /\ users' = users
         /\ companies' = companies
         /\ joinRequests' = joinRequests

\* C25: a POST /register answered with a 400 leaves the credential store
\* unchanged: no user record, company or join request exists afterwards
\* that did not exist before.
C25_Rejected400LeavesStore == [][RejectedRegisterKeepsStore]_vars


\* The accounts registered by a request to join a contractor company that
\* no approved join request covers.
AwaitingApproval ==
    {u \in DOMAIN regBranch :
        /\ regBranch[u] = "join"
        /\ ~\E j \in joinRequests : j.userId = u /\ j.status = "approved"}

\* C26: registration and email verification never leave a session whose
\* user is inactive, and the account of a contractor who asked to join a
\* company has no session before the request is approved.
C26_NoSessionBeforeApproval ==
    \A sid \in Sids :
      sessions[sid].userId \in DOMAIN users =>
        /\ users[sessions[sid].userId].isActive
        /\ sessions[sid].userId \notin AwaitingApproval


\* The fields of a user that GET /api/auth/user answers with.
PublicFields == ProfileFields \cup {"twoFactorEnabled"}

\* The columns that hold the password hash and the stored 2FA secret.
SecretColumns == {"password", "twoFactorSecret"}

\* C27: the user data of a response holds neither the stored password hash
\* nor the stored two-factor secret, and holds public fields only.
C27_ResponsesHoldPublicFieldsOnly ==
    /\ last.body \cap SecretColumns = {}
    /\ last.body \subseteq PublicFields


\* C28: after a registration a user holds permission level owner only if
\* the company-owner branch created it and succeeded, which leaves the role
\* company_admin and a company of its own; a user left with role
\* team_member, contractor_individual or contractor_account_owner never
\* holds level owner.
C28_OwnerLevelOnlyForCompanyOwner ==
    \A u \in DOMAIN users :
      users[u].permissionLevel = "owner" =>
        /\ users[u].role = "company_admin"
        /\ users[u].companyId \in DOMAIN companies
        /\ u \in DOMAIN regBranch /\ regBranch[u] = "owner"


\* The user with its permission level raised to a higher one of
\* viewer < editor < manager < owner.
Raised(user) ==
    { [user EXCEPT !.permissionLevel = level] :
        level \in {l \in {"viewer", "editor", "manager", "owner"} :
                     /\ LevelRank(user.permissionLevel) > 0
                     /\ LevelRank(l) > LevelRank(user.permissionLevel)} }

\* What the contractor helper applied last answers for another user.
ContractorHelper(user) ==
    CASE call.fn = "canContractorEdit" -> CanContractorEdit(user, call.list)
      [] call.fn = "canContractorView" -> CanContractorView(user, call.list)
      [] call.fn = "canManageContractorTeam" -> CanManageContractorTeam(user)
      [] OTHER -> FALSE

\* C29: for a contractor_team_member and any assignment list, an answer of
\* true from canContractorEdit, canContractorView or canManageContractorTeam
\* stays true when the user's permission level is raised.
C29_ContractorAccessMonotone ==
    ( /\ call.fn \in {"canContractorEdit", "canContractorView", "canManageContractorTeam"}
      /\ RoleOf(call.user) = "contractor_team_member"
      /\ call.result )
    => \A higher \in Raised(call.user) : ContractorHelper(higher)

\* C30: for a user whose permission level is not manager,
\* canManageContractorTeam answers true only if the user's role has the
\* permission manage_team_members.
C30_TeamManagementNeedsPermission ==
    ( /\ call.fn = "canManageContractorTeam"
      /\ call.user.permissionLevel # "manager"
      /\ call.result )
    => HasPermission(RoleOf(call.user), "manage_team_members")

=============================================================================
